---- MODULE Spec2Model ----
(***************************************************************************)
(* A model of the deferred data pipeline of prof-viewer:                   *)
(*   - DeferredDataSourceWrapper, CountingDeferredDataSource               *)
(*     (src/src/deferred_data.rs),                                         *)
(*   - ParallelDeferredDataSource (src/src/parallel_data.rs),              *)
(*   - MergeDeferredDataSource (src/src/merge_data.rs),                    *)
(*   - Interval (src/src/timestamp.rs),                                    *)
(*   - DataSourceArchiveWriter (src/src/archive_data.rs) and               *)
(*     FileDataSource (src/src/file_data.rs),                              *)
(*   - Config::request_tiles (src/src/app.rs).                             *)
(***************************************************************************)
EXTENDS Integers, Sequences, FiniteSets, Bags, TLC

VARIABLES
    \* ---- deferred / parallel / counting data sources ----
    inner,                  \* which source CountingDeferredDataSource wraps
    spawned,                \* rayon tasks spawned and not yet finished (a bag)
    queue,                  \* the result vectors infos, tile_sets, ... by kind
    outstanding_requests,   \* CountingDeferredDataSource::outstanding_requests
    failed,                 \* the assertion of finish_request has failed
    nFetch,                 \* history: fetch_* calls made so far
    submitted,              \* history: bag of the [kind, req] of those calls
    nReturned,              \* history: results returned by get_* so far
    returned,               \* history: bag of [get, res], res returned by get_<get>
    lastCall,               \* history: the last call made on the counting source
    drains,                 \* history: <<counter before, results>> of the last two non-empty get_*
    \* ---- merge data source ----
    children,               \* the DataSourceInfo each child data source serves
    childInfoPending,       \* per child: fetch_info calls it has not answered yet
    infos,                  \* MergeDeferredDataSource::infos (a deque per child)
    mapping,                \* MergeDeferredDataSource::mapping
    childTilePending,       \* bag of the tile requests the children still hold
    mergeFailed,            \* "none", or why the merge source panicked
    nInfoFetch,             \* history: fetch_info calls on the merge source
    mergedInfos,            \* history: the infos returned by its get_infos
    lastGetInfos,           \* history: the last get_infos call
    forwards,               \* history: bag of the tile fetches forwarded to a child
    handed,                 \* history: bag of the tiles the children returned
    mergedOut,              \* history: bag of the tiles the merge source returned
    \* ---- Interval ----
    operands,               \* the self, other and duration_ns of an Interval method call
    outcome,                \* the method called on them and what it returned
    \* ---- archive writer and file reader ----
    source,                 \* the DataSourceInfo the wrapped data source serves
    writer,                 \* DataSourceArchiveWriter: levels, branch_factor
    pc,                     \* where DataSourceArchiveWriter::write stands
    local,                  \* the locals of write: info, entry_ids, level, tile_ids, tile_set
    pending,                \* bag of the tile fetches the data source has not answered
    files,                  \* the archive directory: path -> content of the file
    fetched,                \* history: per level, the set of tile fetches made
    written,                \* history: set of the [kind, tile, path] handed to spawn_write
    \* ---- Config (the viewer's tile selector) ----
    config,                 \* Config: interval, tile_set, last_request_interval, request_tile_cache
    request,                \* history: the last request_tiles call and what it did
    \* ---- EntryID, EntryInfo, FieldSchema ----
    slug,                   \* an EntryID, its slug and what from_slug made of it
    lookup,                 \* an EntryInfo tree, an EntryID and what get returned
    schema,                 \* a FieldSchema and the history of its insert calls
    \* ---- DataSourceHTTPServer ----
    server,                 \* the data-source mutex and the requests being handled
    \* ---- Timestamp (parse and display) ----
    stamp,                  \* the text or value handed to parse or Display and the result
    \* ---- ProfApp (tiles arriving in the update loop) ----
    window,                 \* the entries of a window, their tile maps, the tiles in flight
    \* ---- ParallelDeferredDataSource, its mutexes ----
    locks,                  \* the result-vector mutexes, the tasks and the caller of a parallel source
    \* ---- create_unique_dir ----
    unique,                 \* create_unique_dir: the path, force, the directories before and after
    \* ---- ProfApp::update and its repaint request ----
    app,                    \* ProfApp: pending_data_sources, the windows' counters, the repaint request
    \* ---- RandomDataSource ----
    random,                 \* RandomDataSource: the items of a slot, the tile fetched, the tiles returned
    \* ---- view interval history ----
    history                 \* Context: view_interval and view_interval_history

deferredVars == <<inner, spawned, queue, outstanding_requests, failed,
                  nFetch, submitted, nReturned, returned, lastCall, drains>>

mergeVars == <<children, childInfoPending, infos, mapping,
               childTilePending, mergeFailed, nInfoFetch, mergedInfos,
               lastGetInfos, forwards, handed, mergedOut>>

intervalVars == <<operands, outcome>>

archiveVars == <<source, writer, pc, local, pending, files, fetched, written>>

configVars == <<config, request>>

dataVars == <<slug, lookup, schema>>

serverVars == <<server>>

timestampVars == <<stamp>>

windowVars == <<window>>

locksVars == <<locks>>

uniqueVars == <<unique>>

repaintVars == <<app>>

randomVars == <<random>>

historyVars == <<history>>

vars == <<deferredVars, mergeVars, intervalVars, archiveVars, configVars,
          dataVars, serverVars, timestampVars, windowVars, locksVars,
    uniqueVars, repaintVars, randomVars, historyVars>>

\* The variables of the other components, left alone by the deferred sources.
otherThanDeferred == <<mergeVars, intervalVars, archiveVars, configVars,
    dataVars, serverVars, timestampVars, windowVars, locksVars, uniqueVars,
    repaintVars, randomVars, historyVars>>

\* The variables of the other components, left alone by the merge source.
otherThanMerge == <<deferredVars, intervalVars, archiveVars, configVars,
    dataVars, serverVars, timestampVars, windowVars, locksVars, uniqueVars,
    repaintVars, randomVars, historyVars>>

\* The variables of the other components, left alone by the Interval methods.
otherThanInterval == <<deferredVars, mergeVars, archiveVars, configVars,
    dataVars, serverVars, timestampVars, windowVars, locksVars, uniqueVars,
    repaintVars, randomVars, historyVars>>

\* The variables of the other components, left alone by the archive writer.
otherThanArchive == <<deferredVars, mergeVars, intervalVars, configVars,
    dataVars, serverVars, timestampVars, windowVars, locksVars, uniqueVars,
    repaintVars, randomVars, historyVars>>

\* The variables of the other components, left alone by Config.
otherThanConfig == <<deferredVars, mergeVars, intervalVars, archiveVars,
    dataVars, serverVars, timestampVars, windowVars, locksVars, uniqueVars,
    repaintVars, randomVars, historyVars>>

\* The variables of the other components, left alone by EntryID, EntryInfo
\* and FieldSchema.
otherThanData == <<deferredVars, mergeVars, intervalVars, archiveVars,
    configVars, serverVars, timestampVars, windowVars, locksVars,
    uniqueVars, repaintVars, randomVars, historyVars>>

\* The variables of the other components, left alone by the HTTP server.
otherThanServer == <<deferredVars, mergeVars, intervalVars, archiveVars,
    configVars, dataVars, timestampVars, windowVars, locksVars, uniqueVars,
    repaintVars, randomVars, historyVars>>

\* The variables of the other components, left alone by Timestamp.
otherThanTimestamp == <<deferredVars, mergeVars, intervalVars, archiveVars,
    configVars, dataVars, serverVars, windowVars, locksVars, uniqueVars,
    repaintVars, randomVars, historyVars>>

\* The variables of the other components, left alone by the update loop.
otherThanWindow == <<deferredVars, mergeVars, intervalVars, archiveVars,
    configVars, dataVars, serverVars, timestampVars, locksVars, uniqueVars,
    repaintVars, randomVars, historyVars>>

\* The variables of the other components, left alone by the tasks and mutexes.
otherThanLocks == <<deferredVars, mergeVars, intervalVars, archiveVars,
    configVars, dataVars, serverVars, timestampVars, windowVars, uniqueVars,
    repaintVars, randomVars, historyVars>>

\* The variables of the other components, left alone by create_unique_dir.
otherThanUnique == <<deferredVars, mergeVars, intervalVars, archiveVars,
    configVars, dataVars, serverVars, timestampVars, windowVars, locksVars,
    repaintVars, randomVars, historyVars>>

\* The variables of the other components, left alone by the repaint request.
otherThanRepaint == <<deferredVars, mergeVars, intervalVars, archiveVars,
    configVars, dataVars, serverVars, timestampVars, windowVars, locksVars, uniqueVars,
    randomVars, historyVars>>

\* The variables of the other components, left alone by the random data source.
otherThanRandom == <<deferredVars, mergeVars, intervalVars, archiveVars,
    configVars, dataVars, serverVars, timestampVars, windowVars, locksVars, uniqueVars, repaintVars,
    historyVars>>

\* The variables of the other components, left alone by pan, zoom, undo and redo.
otherThanHistory == <<deferredVars, mergeVars, intervalVars, archiveVars,
    configVars, dataVars, serverVars, timestampVars, windowVars, locksVars, uniqueVars, repaintVars, randomVars>>

(***************************************************************************)
(* Bounds                                                                  *)
(***************************************************************************)
\* fetch_* calls made by the caller of SpecCount
MaxFetch == 7
\* fetch_* calls made by the caller of SpecPar
MaxReq == 3
\* fetch_* calls made by the caller of SpecParLive
MaxLiveReq == 2

(***************************************************************************)
(* DeferredDataSource: the five fetch_X / get_X pairs                      *)
(***************************************************************************)
Kinds == {"info", "tile_set", "summary_tile", "slot_tile", "slot_meta_tile"}

\* The kinds the caller of SpecCount asks for (the archive writer's slot fetches).
CallerKinds == {"slot_tile", "slot_meta_tile"}

\* The synchronous DataSource: the result of fetch_X for the request req.
DataSourceFetch(k, req) == [kind |-> k, req |-> req]

\* A get_X that clones the vector and leaves its content in place.
TakeClone(q) == [result |-> q, rest |-> q]

\* std::mem::take on a result vector: the caller gets the vector, an empty one stays.
Take(q) == [result |-> q, rest |-> <<>>]

\* A push that replaces the vector's content instead of appending to it.
PushOverwrite(q, k, res) == [q EXCEPT ![k] = <<res>>]

\* A push whose result never reaches the shared vector.
PushNowhere(q, k, res) == q

\* Vec::push of a worker (under the mutex) or of the inline wrapper.
Push(q, k, res) == [q EXCEPT ![k] = Append(@, res)]

StartRequest(n) == n + 1

\* A finish_request that counts the get_* call, not the results it returns.
FinishRequestPerCall(n, count) ==
    IF n >= count THEN [ok |-> TRUE, n |-> IF count > 0 THEN n - 1 ELSE n]
                  ELSE [ok |-> FALSE, n |-> n]

\* finish_request: assert!(outstanding_requests >= count); then subtract.
FinishRequest(n, count) ==
    IF n >= count THEN [ok |-> TRUE, n |-> n - count]
                  ELSE [ok |-> FALSE, n |-> n]

LastTwo(s) == IF Len(s) > 2 THEN Tail(s) ELSE s

\* No merge source is in use.
MergeIdle ==
    /\ children = <<>>
    /\ childInfoPending = <<>>
    /\ infos = <<>>
    /\ mapping = <<>>
    /\ childTilePending = EmptyBag
    /\ mergeFailed = "none"
    /\ nInfoFetch = 0
    /\ mergedInfos = <<>>
    /\ lastGetInfos = [min |-> 0, max |-> 0, n |-> 0]
    /\ forwards = EmptyBag
    /\ handed = EmptyBag
    /\ mergedOut = EmptyBag

\* A counting source that is never called.
DeferredIdle ==
    /\ inner = "wrapper"
    /\ spawned = EmptyBag
    /\ queue = [k \in Kinds |-> <<>>]
    /\ outstanding_requests = 0
    /\ failed = FALSE
    /\ nFetch = 0
    /\ submitted = EmptyBag
    /\ nReturned = 0
    /\ returned = EmptyBag
    /\ lastCall = [op |-> "none", n |-> 0, before |-> 0]
    /\ drains = <<>>

\* No Interval method is called.
IntervalIdle ==
    /\ operands = <<>>
    /\ outcome = <<>>

\* No archive is written.
ArchiveIdle ==
    /\ source = <<>>
    /\ writer = <<>>
    /\ pc = "idle"
    /\ local = <<>>
    /\ pending = EmptyBag
    /\ files = <<>>
    /\ fetched = <<>>
    /\ written = {}

\* No profile is shown.
ConfigIdle ==
    /\ config = <<>>
    /\ request = <<>>

\* No slug is formatted, no entry looked up, no schema built.
DataIdle ==
    /\ slug = <<>>
    /\ lookup = <<>>
    /\ schema = <<>>

\* No server runs.
ServerIdle == server = <<>>

\* No timestamp is parsed or displayed.
TimestampIdle == stamp = <<>>

\* No window is open.
WindowIdle == window = <<>>

\* No parallel source is watched at its mutexes.
LocksIdle == locks = <<>>

\* write has not been called with a path to make.
UniqueIdle == unique = <<>>

\* No viewer runs its update loop on counters.
RepaintIdle == app = <<>>

\* No random data source is asked for tiles.
RandomIdle == random = <<>>

\* No view interval history is kept.
HistoryIdle == history = <<>>

InitDeferred ==
    /\ MergeIdle
    /\ IntervalIdle
    /\ ArchiveIdle
    /\ ConfigIdle
    /\ DataIdle
    /\ ServerIdle
    /\ TimestampIdle
    /\ WindowIdle
    /\ LocksIdle
    /\ UniqueIdle
    /\ RepaintIdle
    /\ RandomIdle
    /\ HistoryIdle
    /\ inner \in {"wrapper", "parallel"}
    /\ spawned = EmptyBag
    /\ queue = [k \in Kinds |-> <<>>]
    /\ outstanding_requests = 0
    /\ failed = FALSE
    /\ nFetch = 0
    /\ submitted = EmptyBag
    /\ nReturned = 0
    /\ returned = EmptyBag
    /\ lastCall = [op |-> "none", n |-> 0, before |-> 0]
    /\ drains = <<>>

\* DeferredDataSourceWrapper::fetch_X: runs the source inline and stashes the result.
WrapperFetch(k, req) ==
    /\ queue' = Push(queue, k, DataSourceFetch(k, req))
    /\ UNCHANGED spawned

\* ParallelDeferredDataSource::fetch_X: rayon::spawn of the task, nothing else.
ParFetch(k, req) ==
    /\ spawned' = spawned (+) SetToBag({[kind |-> k, req |-> req]})
    /\ UNCHANGED queue

\* CountingDeferredDataSource::fetch_X: start_request, then the wrapped fetch_X.
Fetch(k, req) ==
    /\ ~failed
    /\ outstanding_requests' = StartRequest(outstanding_requests)
    /\ IF inner = "wrapper" THEN WrapperFetch(k, req) ELSE ParFetch(k, req)
    /\ nFetch' = nFetch + 1
    /\ submitted' = submitted (+) SetToBag({[kind |-> k, req |-> req]})
    /\ lastCall' = [op |-> "fetch", n |-> 0, before |-> outstanding_requests]
    /\ UNCHANGED <<inner, failed, nReturned, returned, drains>>
    /\ UNCHANGED otherThanDeferred

\* The spawned closure: run the DataSource's fetch_X, lock the vector, push.
\* The fetch touches no shared state, so the task is one step at its push.
Worker(t) ==
    /\ ~failed
    /\ BagIn(t, spawned)
    /\ spawned' = spawned (-) SetToBag({t})
    /\ queue' = Push(queue, t.kind, DataSourceFetch(t.kind, t.req))
    /\ UNCHANGED <<inner, outstanding_requests, failed, nFetch, submitted,
                   nReturned, returned, lastCall, drains>>
    /\ UNCHANGED otherThanDeferred

\* CountingDeferredDataSource::get_X: the wrapped get_X (a take of the vector,
\* under the mutex for the parallel source), then finish_request.
Get(k) ==
    /\ ~failed
    /\ LET r == Take(queue[k])
           fin == FinishRequest(outstanding_requests, Len(r.result))
       IN  /\ queue' = [queue EXCEPT ![k] = r.rest]
           /\ IF fin.ok
              THEN /\ outstanding_requests' = fin.n
                   /\ nReturned' = nReturned + Len(r.result)
                   /\ returned' = returned (+)
                        [x \in {[get |-> k, res |-> r.result[i]] :
                                    i \in 1..Len(r.result)} |->
                           Cardinality({i \in 1..Len(r.result) :
                                          r.result[i] = x.res})]
                   /\ lastCall' = [op |-> "get", n |-> Len(r.result),
                                   before |-> outstanding_requests]
                   /\ drains' = IF r.result = <<>> THEN drains
                                 ELSE LastTwo(Append(drains,
                                        <<outstanding_requests, Len(r.result)>>))
                   /\ UNCHANGED failed
              ELSE /\ failed' = TRUE
                   /\ UNCHANGED <<outstanding_requests, nReturned, returned,
                                  lastCall, drains>>
    /\ UNCHANGED <<inner, spawned, nFetch, submitted>>
    /\ UNCHANGED otherThanDeferred

\* A caller that asks for the same tile again and again, MaxFetch times.
NextCount ==
    \/ \E k \in CallerKinds : nFetch < MaxFetch /\ Fetch(k, 0)
    \/ \E t \in BagToSet(spawned) : Worker(t)
    \/ \E k \in CallerKinds : Get(k)

\* A caller whose requests are all different (numbered), of every kind.
NextPar ==
    \/ \E k \in Kinds : nFetch < MaxReq /\ Fetch(k, nFetch + 1)
    \/ \E t \in BagToSet(spawned) : Worker(t)
    \/ \E k \in Kinds : Get(k)

SpecCount == InitDeferred /\ [][NextCount]_vars

SpecPar == InitDeferred /\ [][NextPar]_vars

\* The same caller, with fewer requests.
NextParLive ==
    \/ \E k \in Kinds : nFetch < MaxLiveReq /\ Fetch(k, nFetch + 1)
    \/ \E t \in BagToSet(spawned) : Worker(t)
    \/ \E k \in Kinds : Get(k)

\* Workers are scheduled fairly and the caller keeps polling every get_X.
SpecParLive ==
    /\ InitDeferred
    /\ [][NextParLive]_vars
    /\ WF_vars(\E t \in BagToSet(spawned) : Worker(t))
    /\ \A k \in Kinds : WF_vars(Get(k))

(***************************************************************************)
(* Claims about the deferred sources                                       *)
(***************************************************************************)
\* Occurrences of x in the sequence s.
Count(s, x) == Cardinality({i \in 1..Len(s) : s[i] = x})

\* C1: outstanding_requests equals the fetch_* calls made minus the results
\* returned by get_*: a fetch_* adds exactly 1, a get_* subtracts exactly the
\* length of the list it returns, and an empty list leaves the counter alone.
C1_RequestAccounting ==
    /\ outstanding_requests = nFetch - nReturned
    /\ lastCall.op = "fetch" => outstanding_requests = lastCall.before + 1
    /\ lastCall.op = "get" => outstanding_requests = lastCall.before - lastCall.n
    /\ \A i \in 1..Len(drains) : drains[i][2] <= drains[i][1]

\* C1 witness: 7 slot fetches, a drain of 3 at counter 7, a drain of 4 at
\* counter 4, and then a get_* that returns nothing and leaves the counter at 0.
C1_SevenFourZero ==
    /\ submitted = [x \in {[kind |-> "slot_tile", req |-> 0]} |-> 7]
    /\ drains = << <<7, 3>>, <<4, 4>> >>
    /\ lastCall = [op |-> "get", n |-> 0, before |-> 0]
    /\ outstanding_requests = 0
    /\ ~failed

\* C2: the results returned never exceed the fetches submitted, so the
\* assertion of finish_request never fails and the counter is never negative.
C2_ReturnsNeverExceedSubmits ==
    /\ ~failed
    /\ nReturned <= nFetch
    /\ outstanding_requests >= 0
    /\ \A k \in Kinds : Len(queue[k]) <= outstanding_requests

\* C2 witness: a parallel source with one result returned, one waiting in a
\* vector and one still with a worker.
C2_Interleaved ==
    /\ inner = "parallel"
    /\ nFetch = 3
    /\ nReturned = 1
    /\ BagCardinality(spawned) = 1
    /\ outstanding_requests = 2

\* C3: the result of every fetch_X is in exactly one place: with its worker,
\* in the vector of its own kind, or returned (once) by get_X of its own kind.
C3_ExactlyOnce ==
    /\ \A x \in BagToSet(submitted) :
          CopiesIn(x, submitted) =
              CopiesIn(x, spawned)
            + Count(queue[x.kind], DataSourceFetch(x.kind, x.req))
            + CopiesIn([get |-> x.kind, res |-> DataSourceFetch(x.kind, x.req)],
                       returned)
    /\ \A t \in BagToSet(spawned) : BagIn(t, submitted)
    /\ \A k \in Kinds : \A i \in 1..Len(queue[k]) :
          /\ queue[k][i].kind = k
          /\ BagIn([kind |-> k, req |-> queue[k][i].req], submitted)
    /\ \A y \in BagToSet(returned) :
          /\ y.res.kind = y.get
          /\ BagIn([kind |-> y.get, req |-> y.res.req], submitted)

\* C3 witness: a worker pushed between two get_X of the same kind, and both
\* results came back, each once.
C3_PushBetweenGets ==
    /\ inner = "parallel"
    /\ \E k \in Kinds :
          /\ CopiesIn([get |-> k, res |-> DataSourceFetch(k, 1)], returned) = 1
          /\ CopiesIn([get |-> k, res |-> DataSourceFetch(k, 2)], returned) = 1
          /\ drains = << <<2, 1>>, <<1, 1>> >>

\* A request numbered i has been submitted / has been returned by its get_X.
Submitted(i) == \E k \in Kinds : BagIn([kind |-> k, req |-> i], submitted)

Returned(i) ==
    \E k \in Kinds : BagIn([get |-> k, res |-> DataSourceFetch(k, i)], returned)

\* C4: with fair workers and a caller that keeps polling, every submitted
\* fetch_X is eventually returned by a get_X, and the counter settles at 0.
C4_EventuallyReturned ==
    /\ \A i \in 1..MaxLiveReq : Submitted(i) ~> Returned(i)
    /\ <>[](outstanding_requests = 0)

\* C4 witness: a parallel source whose every request was submitted and returned.
C4_AllReturned ==
    /\ inner = "parallel"
    /\ nFetch = MaxLiveReq
    /\ \A i \in 1..MaxLiveReq : Submitted(i) /\ Returned(i)
    /\ outstanding_requests = 0

(***************************************************************************)
(* MergeDeferredDataSource                                                 *)
(***************************************************************************)
\* Child data sources under one merge source.
MaxChildren == 2
\* Root slots of the merged profile in SpecMerge.
MaxTotalSlots == 5
\* Root slots of a child in SpecMergeInfo.
MaxInfoSlots == 2
\* fetch_info calls made by the caller of SpecMergeInfo.
MaxInfoFetch == 2
\* Tile fetches made by the caller of SpecMerge.
MaxTileFetch == 1

\* A u64 is kept at its true width, as U64Limbs limbs of 16 bits, least
\* significant first.
LimbBase == 65536

U64Limbs == 4

U64(n) == <<n>> \o [i \in 1..(U64Limbs - 1) |-> 0]

\* 2^63 and 2^64 - 1.
U64Half == [i \in 1..U64Limbs |-> IF i = U64Limbs THEN LimbBase \div 2 ELSE 0]

U64Max == [i \in 1..U64Limbs |-> LimbBase - 1]

\* u * n + carry on limbs, for small n and carry: the low 64 bits and the
\* carry out of them.
RECURSIVE MulAddLimbs(_, _, _)
MulAddLimbs(u, n, carry) ==
    IF u = <<>> THEN [limbs |-> <<>>, carry |-> carry]
    ELSE LET t == Head(u) * n + carry
             rest == MulAddLimbs(Tail(u), n, t \div LimbBase)
         IN  [limbs |-> <<t % LimbBase>> \o rest.limbs, carry |-> rest.carry]

Interval(a, b) == [start |-> a, stop |-> b]

\* Interval::union
IntervalUnion(a, b) ==
    [start |-> IF a.start <= b.start THEN a.start ELSE b.start,
     stop |-> IF a.stop >= b.stop THEN a.stop ELSE b.stop]

TileKinds == {"summary_tile", "slot_tile", "slot_meta_tile"}

\* TileID(Interval)
TileIds == {Interval(0, 1000)}

\* What follows the level-0 index in the EntryIDs the caller asks tiles for:
\* the summary below a root slot, or the root slot itself.
EntryRest ==
    [summary_tile |-> <<-1>>, slot_tile |-> <<>>, slot_meta_tile |-> <<>>]

\* EntryInfo::Slot
Slot(k, j) == [variant |-> "Slot", short_name |-> <<"S", k, j>>, max_rows |-> 1]

\* EntryInfo::Panel: the root of child idx, with m slots and no summary.
Root(idx, m) ==
    [variant |-> "Panel", short_name |-> <<"P", idx>>, summary |-> "None",
     slots |-> [j \in 1..m |-> Slot(idx, j - 1)]]

\* DataSourceInfo
DataSourceInfo(entry_info, interval, tile_set, field_schema) ==
    [entry_info |-> entry_info, interval |-> interval,
     tile_set |-> tile_set, field_schema |-> field_schema]

\* The values the children's infos are drawn from.
Intervals == {Interval(0, 1000), Interval(1500, 2000)}

TileSets == {"dynamic", "static"}

FieldSchemas == {"schema_a", "schema_b"}

\* Item, ItemMeta, ItemLink and the Field variants
Item(u) == [item_uid |-> u, interval |-> Interval(0, 10), color |-> "red"]

ItemMeta(u, fields) ==
    [item_uid |-> u, original_interval |-> Interval(0, 10), title |-> "task",
     fields |-> fields]

FieldI64(v) == [tag |-> "I64", v |-> v]

FieldEmpty == [tag |-> "Empty"]

FieldItemLink(u, e) ==
    [tag |-> "ItemLink", item_uid |-> u, title |-> "link",
     interval |-> Interval(0, 10), entry_id |-> e]

FieldVec(elts) == [tag |-> "Vec", elts |-> elts]

\* What the children put in their tiles: item rows with small uids, or with
\* uids at the top of the u64 range.
SmallItems ==
    << <<Item(U64(0)), Item(U64(1))>>, <<Item(U64(2))>> >>

LargeItems ==
    << <<Item(U64Half)>>, <<Item(U64Max), Item(U64(0))>> >>

SmallMetas ==
    << <<ItemMeta(U64(0), << <<0, FieldI64(7)>>,
                              <<1, FieldItemLink(U64(1), <<0>>)>> >>),
         ItemMeta(U64(1), << <<2, FieldVec(<<FieldItemLink(U64(2), <<0, 0>>),
                                            FieldEmpty>>)>> >>)>>,
       <<ItemMeta(U64(2), <<>>)>> >>

LargeMetas ==
    << <<ItemMeta(U64Half, << <<1, FieldItemLink(U64Max, <<0>>)>> >>)>>,
       <<ItemMeta(U64Max, <<>>), ItemMeta(U64(0), <<>>)>> >>

TileData ==
    [summary_tile |-> {"utilization"},
     slot_tile |-> {SmallItems, LargeItems},
     slot_meta_tile |-> {SmallMetas, LargeMetas}]

\* The tile a child returns for a request: stamped with what it was asked for.
ChildTile(req, data) ==
    [entry_id |-> req.entry_id, tile_id |-> req.tile_id, data |-> data]

\* merge_entry that puts the second root's slots first.
MergeEntrySecondFirst(first, second) ==
    [ok |-> first.variant = "Panel" /\ second.variant = "Panel",
     entry |-> [first EXCEPT !.slots = second.slots \o first.slots]]

\* merge_entry: both are Panels without a summary; the first one's names, the
\* first one's slots extended by the second one's.
MergeEntry(first, second) ==
    IF first.variant # "Panel" \/ second.variant # "Panel"
    THEN [ok |-> FALSE, entry |-> first]
    ELSE IF first.summary # "None" \/ second.summary # "None"
    THEN [ok |-> FALSE, entry |-> first]
    ELSE [ok |-> TRUE,
          entry |-> [variant |-> "Panel", short_name |-> first.short_name,
                     summary |-> "None",
                     slots |-> first.slots \o second.slots]]

\* The loop of compute_mapping: push the running sum, then add the slot count.
RECURSIVE MappingLoop(_, _)
MappingLoop(slot_lens, sum) ==
    IF slot_lens = <<>> THEN <<>>
    ELSE <<sum>> \o MappingLoop(Tail(slot_lens), sum + Head(slot_lens))

\* compute_mapping: the slot count of every root, then the loop.
ComputeMapping(source_infos) ==
    MappingLoop([k \in 1..Len(source_infos) |->
                    Len(source_infos[k].entry_info.slots)], 0)

\* Iterator::reduce(Interval::union) over the infos after the first.
RECURSIVE ReduceUnion(_, _)
ReduceUnion(acc, rest) ==
    IF rest = <<>> THEN acc
    ELSE ReduceUnion(IntervalUnion(acc, Head(rest).interval), Tail(rest))

\* Iterator::reduce(merge_entry) over the infos after the first.
RECURSIVE ReduceEntry(_, _)
ReduceEntry(acc, rest) ==
    IF rest = <<>> \/ ~acc.ok THEN acc
    ELSE ReduceEntry(MergeEntry(acc.entry, Head(rest).entry_info), Tail(rest))

\* merge_infos: tile_set and field_schema of the first info, asserted equal
\* to every info's; the intervals and the roots reduced.
MergeInfos(source_infos) ==
    LET first_info == Head(source_infos)
        entry == ReduceEntry([ok |-> TRUE, entry |-> first_info.entry_info],
                             Tail(source_infos))
    IN  IF \E k \in 1..Len(source_infos) :
               \/ source_infos[k].tile_set # first_info.tile_set
               \/ source_infos[k].field_schema # first_info.field_schema
        THEN [ok |-> FALSE, why |-> "assert_eq", info |-> first_info]
        ELSE IF ~entry.ok
        THEN [ok |-> FALSE, why |-> "merge_entry", info |-> first_info]
        ELSE [ok |-> TRUE, why |-> "none",
              info |-> DataSourceInfo(
                          entry.entry,
                          ReduceUnion(first_info.interval, Tail(source_infos)),
                          first_info.tile_set, first_info.field_schema)]

\* EntryID::index(0)
Index0(e) ==
    IF e = <<>> THEN "None" ELSE IF e[1] < 0 THEN "Summary" ELSE "Slot"

\* EntryID::shift_level0 and its three assertions.
ShiftLevel0(e, level0_offset) ==
    IF e = <<>> THEN [ok |-> FALSE, entry |-> e]
    ELSE IF e[1] = -1 THEN [ok |-> FALSE, entry |-> e]
    ELSE LET result == [e EXCEPT ![1] = @ + level0_offset]
         IN  [ok |-> result[1] >= 0, entry |-> result]

\* slice::partition_point(|offset| offset < level0): the index (from 0) of
\* the first offset that is not below level0, the length if there is none.
PartitionPoint(m, level0) ==
    IF \A i \in 1..Len(m) : m[i] < level0 THEN Len(m)
    ELSE (CHOOSE i \in 1..Len(m) :
              /\ ~(m[i] < level0)
              /\ \A j \in 1..(i - 1) : m[j] < level0) - 1

\* map_src_to_dst_entry that forgets the offset.
MapSrcToDstEntryUnshifted(m, idx, src_entry) ==
    [ok |-> idx < Len(m), entry |-> src_entry]

\* map_src_to_dst_entry; idx counts from 0 as in the source.
MapSrcToDstEntry(m, idx, src_entry) ==
    IF idx >= Len(m) THEN [ok |-> FALSE, entry |-> src_entry]
    ELSE ShiftLevel0(src_entry, m[idx + 1])

\* map_dst_to_src_entry
MapDstToSrcEntry(m, dst_entry) ==
    IF Index0(dst_entry) # "Slot"
    THEN [ok |-> FALSE, why |-> "unreachable", idx |-> 0, entry |-> dst_entry]
    ELSE LET idx == PartitionPoint(m, dst_entry[1])
         IN  IF idx >= Len(m)
             THEN [ok |-> FALSE, why |-> "index out of bounds", idx |-> idx,
                   entry |-> dst_entry]
             ELSE LET s == ShiftLevel0(dst_entry, -m[idx + 1])
                  IN  [ok |-> s.ok,
                       why |-> IF s.ok THEN "none" ELSE "shift_level0",
                       idx |-> idx, entry |-> s.entry]

\* map_src_to_dst_item_uid that drops the child index.
MapSrcToDstItemUidNoIdx(m, idx, item_uid) ==
    LET r == MulAddLimbs(item_uid, Len(m), 0)
    IN  [overflow |-> r.carry > 0, uid |-> r.limbs]

\* map_src_to_dst_item_uid: item_uid * mapping.len() + idx in u64; overflow
\* either panics or wraps, as the build decides.
MapSrcToDstItemUid(m, idx, item_uid) ==
    LET r == MulAddLimbs(item_uid, Len(m), idx)
    IN  [overflow |-> r.carry > 0, uid |-> r.limbs]

\* map_src_to_dst_summary
MapSrcToDstSummary(m, idx, tile) ==
    LET e == MapSrcToDstEntry(m, idx, tile.entry_id)
    IN  [ok |-> e.ok, overflow |-> FALSE,
         tile |-> [entry_id |-> e.entry, tile_id |-> tile.tile_id,
                   data |-> tile.data]]

\* map_src_to_dst_slot
MapSrcToDstSlot(m, idx, tile) ==
    LET items == tile.data
        e == MapSrcToDstEntry(m, idx, tile.entry_id)
    IN  [ok |-> e.ok,
         overflow |-> \E r \in 1..Len(items) : \E c \in 1..Len(items[r]) :
                         MapSrcToDstItemUid(m, idx, items[r][c].item_uid).overflow,
         tile |-> [entry_id |-> e.entry, tile_id |-> tile.tile_id,
                   data |-> [r \in 1..Len(items) |-> [c \in 1..Len(items[r]) |->
                       [items[r][c] EXCEPT !.item_uid =
                           MapSrcToDstItemUid(m, idx, @).uid]]]]]

\* map_src_to_dst_field that does not recurse into Vec fields.
MapSrcToDstFieldShallow(m, idx, field) ==
    IF field.tag = "ItemLink"
    THEN LET u == MapSrcToDstItemUid(m, idx, field.item_uid)
             e == MapSrcToDstEntry(m, idx, field.entry_id)
         IN  [ok |-> e.ok, overflow |-> u.overflow,
              field |-> [field EXCEPT !.item_uid = u.uid, !.entry_id = e.entry]]
    ELSE [ok |-> TRUE, overflow |-> FALSE, field |-> field]

\* map_src_to_dst_field
RECURSIVE MapSrcToDstField(_, _, _)
MapSrcToDstField(m, idx, field) ==
    IF field.tag = "ItemLink"
    THEN LET u == MapSrcToDstItemUid(m, idx, field.item_uid)
             e == MapSrcToDstEntry(m, idx, field.entry_id)
         IN  [ok |-> e.ok, overflow |-> u.overflow,
              field |-> [field EXCEPT !.item_uid = u.uid, !.entry_id = e.entry]]
    ELSE IF field.tag = "Vec"
    THEN LET elts == [i \in 1..Len(field.elts) |->
                         MapSrcToDstField(m, idx, field.elts[i])]
         IN  [ok |-> \A i \in 1..Len(elts) : elts[i].ok,
              overflow |-> \E i \in 1..Len(elts) : elts[i].overflow,
              field |-> [field EXCEPT !.elts =
                            [i \in 1..Len(elts) |-> elts[i].field]]]
    ELSE [ok |-> TRUE, overflow |-> FALSE, field |-> field]

\* The body of the item loop of map_src_to_dst_slot_meta.
MapSrcToDstItemMeta(m, idx, item) ==
    LET u == MapSrcToDstItemUid(m, idx, item.item_uid)
        fields == [i \in 1..Len(item.fields) |->
                      MapSrcToDstField(m, idx, item.fields[i][2])]
    IN  [ok |-> \A i \in 1..Len(fields) : fields[i].ok,
         overflow |-> u.overflow \/ \E i \in 1..Len(fields) : fields[i].overflow,
         item |-> [item EXCEPT !.item_uid = u.uid,
                               !.fields = [i \in 1..Len(fields) |->
                                   <<item.fields[i][1], fields[i].field>>]]]

\* map_src_to_dst_slot_meta
MapSrcToDstSlotMeta(m, idx, tile) ==
    LET items == [r \in 1..Len(tile.data) |-> [c \in 1..Len(tile.data[r]) |->
                     MapSrcToDstItemMeta(m, idx, tile.data[r][c])]]
        e == MapSrcToDstEntry(m, idx, tile.entry_id)
    IN  [ok |-> e.ok /\ \A r \in 1..Len(items) : \A c \in 1..Len(items[r]) :
                       items[r][c].ok,
         overflow |-> \E r \in 1..Len(items) : \E c \in 1..Len(items[r]) :
                         items[r][c].overflow,
         tile |-> [entry_id |-> e.entry, tile_id |-> tile.tile_id,
                   data |-> [r \in 1..Len(items) |-> [c \in 1..Len(items[r]) |->
                                items[r][c].item]]]]

\* The map_src_to_dst_X that get_X applies to the tiles of its kind.
MapSrcToDstTile(kind, m, idx, tile) ==
    IF kind = "summary_tile" THEN MapSrcToDstSummary(m, idx, tile)
    ELSE IF kind = "slot_tile" THEN MapSrcToDstSlot(m, idx, tile)
    ELSE MapSrcToDstSlotMeta(m, idx, tile)

NoFailure == "none"

\* The children of a merge source: idx counts from 0, as in the source.
NumChildren == Len(children)

ChildIdx == 0..(NumChildren - 1)

RECURSIVE BagToSeq(_)
BagToSeq(B) ==
    IF BagToSet(B) = {} THEN <<>>
    ELSE LET x == CHOOSE x \in BagToSet(B) : TRUE
         IN  <<x>> \o BagToSeq(B (-) SetToBag({x}))

RECURSIVE Flatten(_)
Flatten(ss) == IF ss = <<>> THEN <<>> ELSE Head(ss) \o Flatten(Tail(ss))

SeqToBag(s) ==
    [x \in {s[i] : i \in 1..Len(s)} |-> Cardinality({i \in 1..Len(s) : s[i] = x})]

\* The state after MergeDeferredDataSource::new over the given children.
MergeNew(infos_of_children) ==
    /\ children = infos_of_children
    /\ childInfoPending = [k \in 1..Len(infos_of_children) |-> 0]
    /\ infos = [k \in 1..Len(infos_of_children) |-> <<>>]
    /\ mapping = <<>>
    /\ childTilePending = EmptyBag
    /\ mergeFailed = NoFailure
    /\ nInfoFetch = 0
    /\ mergedInfos = <<>>
    /\ lastGetInfos = [min |-> 0, max |-> 0, n |-> 0]
    /\ forwards = EmptyBag
    /\ handed = EmptyBag
    /\ mergedOut = EmptyBag

\* Children that differ in their slots, intervals, tile sets and schemas.
InitMergeInfo ==
    /\ DeferredIdle
    /\ IntervalIdle
    /\ ArchiveIdle
    /\ ConfigIdle
    /\ DataIdle
    /\ ServerIdle
    /\ TimestampIdle
    /\ WindowIdle
    /\ LocksIdle
    /\ UniqueIdle
    /\ RepaintIdle
    /\ RandomIdle
    /\ HistoryIdle
    /\ \E n \in 1..MaxChildren :
       \E ms \in [1..n -> 0..MaxInfoSlots] :
       \E ivs \in [1..n -> Intervals] :
       \E tss \in [1..n -> TileSets] :
       \E fss \in [1..n -> FieldSchemas] :
          MergeNew([k \in 1..n |->
              DataSourceInfo(Root(k - 1, ms[k]), ivs[k], tss[k], fss[k])])

RECURSIVE SeqSum(_)
SeqSum(s) == IF s = <<>> THEN 0 ELSE Head(s) + SeqSum(Tail(s))

\* Children that agree on all but their slots: every way to split up to
\* MaxTotalSlots root slots over children of at least one slot each.
InitMerge ==
    /\ DeferredIdle
    /\ IntervalIdle
    /\ ArchiveIdle
    /\ ConfigIdle
    /\ DataIdle
    /\ ServerIdle
    /\ TimestampIdle
    /\ WindowIdle
    /\ LocksIdle
    /\ UniqueIdle
    /\ RepaintIdle
    /\ RandomIdle
    /\ HistoryIdle
    /\ \E n \in 1..MaxTotalSlots :
       \E ms \in [1..n -> 1..MaxTotalSlots] :
          /\ SeqSum(ms) <= MaxTotalSlots
          /\ MergeNew([k \in 1..n |->
                 DataSourceInfo(Root(k - 1, ms[k]), Interval(0, 1000),
                                "dynamic", "schema_a")])

\* fetch_info: forwarded to every child.
MFetchInfo ==
    /\ mergeFailed = NoFailure
    /\ childInfoPending' = [k \in 1..NumChildren |-> childInfoPending[k] + 1]
    /\ nInfoFetch' = nInfoFetch + 1
    /\ UNCHANGED <<children, infos, mapping, childTilePending,
                   mergeFailed, mergedInfos, lastGetInfos, forwards, handed,
                   mergedOut>>
    /\ UNCHANGED otherThanMerge

\* The loop of get_infos: pop one info from the front of every deque, set
\* the mapping and merge, max_available times.
RECURSIVE GetInfosLoop(_, _, _, _)
GetInfosLoop(deques, n, m, result) ==
    IF n = 0
    THEN [why |-> "none", infos |-> deques, mapping |-> m, result |-> result]
    ELSE IF \E k \in 1..Len(deques) : deques[k] = <<>>
    THEN LET stop == CHOOSE k \in 1..Len(deques) :
                        /\ deques[k] = <<>>
                        /\ \A j \in 1..(k - 1) : deques[j] # <<>>
         IN  [why |-> "unwrap on None",
              infos |-> [k \in 1..Len(deques) |->
                            IF k < stop THEN Tail(deques[k]) ELSE deques[k]],
              mapping |-> m, result |-> result]
    ELSE LET source_infos == [k \in 1..Len(deques) |-> Head(deques[k])]
             rest == [k \in 1..Len(deques) |-> Tail(deques[k])]
             new_mapping == ComputeMapping(source_infos)
             merged == MergeInfos(source_infos)
         IN  IF ~merged.ok
             THEN [why |-> merged.why, infos |-> rest, mapping |-> new_mapping,
                   result |-> result]
             ELSE GetInfosLoop(rest, n - 1, new_mapping,
                               Append(result, merged.info))

SeqMax(s) == CHOOSE x \in {s[i] : i \in 1..Len(s)} :
                 \A i \in 1..Len(s) : s[i] <= x

SeqMin(s) == CHOOSE x \in {s[i] : i \in 1..Len(s)} :
                 \A i \in 1..Len(s) : x <= s[i]

\* get_infos, when the get_infos of child k returns delivered[k] infos.
\* A panic ends the program: the fields are not read again, and the model
\* leaves them as they were.
MGetInfos(delivered) ==
    /\ mergeFailed = NoFailure
    /\ \A k \in 1..NumChildren : delivered[k] <= childInfoPending[k]
    /\ LET extended == [k \in 1..NumChildren |->
                           infos[k] \o [i \in 1..delivered[k] |-> children[k]]]
           lens == [k \in 1..NumChildren |-> Len(extended[k])]
           max_available == SeqMax(lens)
           loop == GetInfosLoop(extended, max_available, mapping, <<>>)
       IN  IF loop.why = "none"
           THEN /\ childInfoPending' = [k \in 1..NumChildren |->
                                           childInfoPending[k] - delivered[k]]
                /\ infos' = loop.infos
                /\ mapping' = loop.mapping
                /\ mergedInfos' = mergedInfos \o loop.result
                /\ lastGetInfos' = [min |-> SeqMin(lens), max |-> max_available,
                                    n |-> Len(loop.result)]
                /\ UNCHANGED mergeFailed
           ELSE /\ mergeFailed' = loop.why
                /\ lastGetInfos' = [min |-> SeqMin(lens), max |-> max_available,
                                    n |-> 0]
                /\ UNCHANGED <<childInfoPending, infos, mapping, mergedInfos>>
    /\ UNCHANGED <<children, childTilePending, nInfoFetch, forwards, handed,
                   mergedOut>>
    /\ UNCHANGED otherThanMerge

\* The level-0 indices of the merged profile, as the caller knows them from
\* the last merged info it got.
MergedLevel0 ==
    IF mergedInfos = <<>> THEN {}
    ELSE 0..(Len(mergedInfos[Len(mergedInfos)].entry_info.slots) - 1)

\* fetch_summary_tile / fetch_slot_tile / fetch_slot_meta_tile
MFetchTile(kind, entry_id, tile_id) ==
    /\ mergeFailed = NoFailure
    /\ entry_id # <<>> /\ entry_id[1] \in MergedLevel0
    /\ LET r == MapDstToSrcEntry(mapping, entry_id)
       IN  IF r.ok
           THEN /\ childTilePending' = childTilePending (+) SetToBag({
                      [child |-> r.idx, kind |-> kind, entry_id |-> r.entry,
                       tile_id |-> tile_id]})
                /\ forwards' = forwards (+) SetToBag({
                      [kind |-> kind, entry_id |-> entry_id,
                       tile_id |-> tile_id, idx |-> r.idx, src |-> r.entry]})
                /\ UNCHANGED mergeFailed
           ELSE /\ mergeFailed' = r.why
                /\ UNCHANGED <<childTilePending, forwards>>
    /\ UNCHANGED <<children, childInfoPending, infos, mapping,
                   nInfoFetch, mergedInfos, lastGetInfos, handed, mergedOut>>
    /\ UNCHANGED otherThanMerge

\* The tile requests of a kind the children hold.
PendingOf(kind) ==
    LET S == {x \in BagToSet(childTilePending) : x.kind = kind}
    IN  [x \in S |-> childTilePending[x]]

\* get_summary_tiles / get_slot_tiles / get_slot_meta_tiles, when the get_X
\* of the children return the tiles of the requests in done, filled with
\* data, in a build that checks integer overflow or not.
MGetTiles(kind, done, data, overflowChecks) ==
    /\ mergeFailed = NoFailure
    /\ done \sqsubseteq PendingOf(kind)
    /\ LET tiles == Flatten([k \in 1..NumChildren |->
               LET of_child == {x \in BagToSet(done) : x.child = k - 1}
                   got == BagToSeq([x \in of_child |-> done[x]])
               IN  [i \in 1..Len(got) |->
                       [idx |-> k - 1, tile |-> ChildTile(got[i], data)]]])
           mapped == [i \in 1..Len(tiles) |->
               MapSrcToDstTile(kind, mapping, tiles[i].idx, tiles[i].tile)]
       IN  /\ childTilePending' = childTilePending (-) done
           /\ handed' = handed (+) SeqToBag([i \in 1..Len(tiles) |->
                 [child |-> tiles[i].idx, kind |-> kind,
                  tile |-> tiles[i].tile]])
           /\ IF \E i \in 1..Len(mapped) : ~mapped[i].ok
              THEN /\ mergeFailed' = "shift_level0"
                   /\ UNCHANGED mergedOut
              ELSE IF overflowChecks /\ \E i \in 1..Len(mapped) : mapped[i].overflow
              THEN /\ mergeFailed' = "overflow"
                   /\ UNCHANGED mergedOut
              ELSE /\ mergedOut' = mergedOut (+) SeqToBag(
                        [i \in 1..Len(mapped) |->
                            [kind |-> kind, child |-> tiles[i].idx,
                             src |-> tiles[i].tile, tile |-> mapped[i].tile]])
                   /\ UNCHANGED mergeFailed
    /\ UNCHANGED <<children, childInfoPending, infos, mapping,
                   nInfoFetch, mergedInfos, lastGetInfos, forwards>>
    /\ UNCHANGED otherThanMerge

\* What the get_infos of the children can return.
Deliveries ==
    {d \in [1..NumChildren -> 0..MaxInfoFetch] :
        \A k \in 1..NumChildren : d[k] <= childInfoPending[k]}

\* A caller that asks for the info up to MaxInfoFetch times.
NextMergeInfo ==
    \/ nInfoFetch < MaxInfoFetch /\ MFetchInfo
    \/ \E d \in Deliveries : MGetInfos(d)

\* A caller that asks for the info once, and then for up to MaxTileFetch tiles.
NextMerge ==
    \/ nInfoFetch = 0 /\ MFetchInfo
    \/ \E d \in Deliveries : MGetInfos(d)
    \/ \E kind \in TileKinds, i \in MergedLevel0, tile_id \in TileIds :
          /\ BagCardinality(forwards) < MaxTileFetch
          /\ MFetchTile(kind, <<i>> \o EntryRest[kind], tile_id)
    \/ \E kind \in TileKinds :
       \E done \in SubBag(PendingOf(kind)), data \in TileData[kind] :
       \E overflowChecks \in BOOLEAN :
          MGetTiles(kind, done, data, overflowChecks)

SpecMergeInfo == InitMergeInfo /\ [][NextMergeInfo]_vars

SpecMerge == InitMerge /\ [][NextMerge]_vars

(***************************************************************************)
(* Claims about the merge source                                           *)
(***************************************************************************)
\* M_k, the root slots of child k, and offset[k] as the claims define it;
\* children are counted from 0.
SlotCount(k) == Len(children[k + 1].entry_info.slots)

RECURSIVE Offset(_)
Offset(k) == IF k = 0 THEN 0 ELSE Offset(k - 1) + SlotCount(k - 1)

\* The child that owns the merged level-0 index i.
Owns(k, i) == Offset(k) <= i /\ i < Offset(k) + SlotCount(k)

\* C5: get_infos returns a merged info only once every child has delivered;
\* called while some child has delivered and another has not, it returns an
\* empty list without failing and keeps what was delivered; and it returns
\* one merged info per fetch_info.
C5_PartialDeliveryWaits ==
    /\ lastGetInfos.n > 0 => lastGetInfos.min > 0
    /\ (lastGetInfos.max > 0 /\ lastGetInfos.min = 0) =>
          /\ mergeFailed = NoFailure
          /\ lastGetInfos.n = 0
          /\ \E k \in 1..NumChildren : infos[k] # <<>>
    /\ Len(mergedInfos) <= nInfoFetch

\* The copies in the bag B of the elements of the set S.
RECURSIVE SumCopies(_, _)
SumCopies(S, B) ==
    IF S = {} THEN 0
    ELSE LET x == CHOOSE x \in S : TRUE
         IN  CopiesIn(x, B) + SumCopies(S \ {x}, B)

\* The tiles child k has handed over for a request of a kind.
HandedFor(k, kind, entry_id, tile_id) ==
    {h \in BagToSet(handed) :
        /\ h.child = k /\ h.kind = kind
        /\ h.tile.entry_id = entry_id /\ h.tile.tile_id = tile_id}

\* C6: a tile fetch for a merged EntryID with level-0 index i never fails and
\* is forwarded to the one child k that owns i (and is held or answered by
\* that child), with the index rewritten to i - offset[k] and the rest of
\* the path and the tile_id unchanged.
C6_ForwardedToOwner ==
    /\ mergeFailed \notin {"index out of bounds", "shift_level0", "unreachable"}
    /\ \A f \in BagToSet(forwards) :
          /\ f.idx \in ChildIdx
          /\ Owns(f.idx, f.entry_id[1])
          /\ f.src = <<f.entry_id[1] - Offset(f.idx)>> \o Tail(f.entry_id)
          /\ CopiesIn(f, forwards) =
                CopiesIn([child |-> f.idx, kind |-> f.kind, entry_id |-> f.src,
                          tile_id |-> f.tile_id], childTilePending)
              + SumCopies(HandedFor(f.idx, f.kind, f.src, f.tile_id), handed)

\* The EntryIDs of the merged profile: a level-0 index in 0 .. (sum of M_k) - 1
\* and a path below it.
MergedEntryIDs ==
    {<<i>> \o rest : i \in 0..(Offset(NumChildren) - 1),
                     rest \in {<<>>, <<-1>>, <<0>>, <<1, -1>>}}

\* C7: once the mapping is set, map_dst_to_src_entry followed by
\* map_src_to_dst_entry is the identity on every merged EntryID, and neither
\* step fails.
C7_EntryRoundTrip ==
    mapping # <<>> =>
        \A e \in MergedEntryIDs :
            LET there == MapDstToSrcEntry(mapping, e)
                back == MapSrcToDstEntry(mapping, there.idx, there.entry)
            IN  there.ok /\ back.ok /\ back.entry = e

\* C8: the mapping holds the offsets offset[0] = 0, offset[k] = offset[k-1] +
\* M_(k-1); every merged info has the children's root slots concatenated in
\* child order (merged slot offset[k] + j is child k's slot j), the smallest
\* interval that contains every child's interval, and the tile_set and
\* field_schema of child 0.
C8_MergedInfo ==
    /\ mapping # <<>> => mapping = [k \in 1..NumChildren |-> Offset(k - 1)]
    /\ \A n \in 1..Len(mergedInfos) :
          LET merged == mergedInfos[n]
              slots == merged.entry_info.slots
          IN  /\ merged.entry_info.variant = "Panel"
              /\ Len(slots) = Offset(NumChildren)
              /\ \A k \in ChildIdx : \A j \in 0..(SlotCount(k) - 1) :
                    slots[Offset(k) + j + 1] =
                        children[k + 1].entry_info.slots[j + 1]
              /\ \A k \in ChildIdx :
                    /\ merged.interval.start <= children[k + 1].interval.start
                    /\ merged.interval.stop >= children[k + 1].interval.stop
              /\ \E k \in ChildIdx :
                    merged.interval.start = children[k + 1].interval.start
              /\ \E k \in ChildIdx :
                    merged.interval.stop = children[k + 1].interval.stop
              /\ merged.tile_set = children[1].tile_set
              /\ merged.field_schema = children[1].field_schema

\* C8 witness: the children of test_merge_info, with 2 and 1 root slots and
\* different intervals, merged into a root of 3 slots with mapping [0, 2].
C8_TwoAndOne ==
    /\ NumChildren = 2
    /\ SlotCount(0) = 2 /\ SlotCount(1) = 1
    /\ children[1].interval = Interval(1500, 2000)
    /\ children[2].interval = Interval(0, 1000)
    /\ mapping = <<0, 2>>
    /\ Len(mergedInfos) = 1
    /\ Len(mergedInfos[1].entry_info.slots) = 3
    /\ mergedInfos[1].entry_info.slots[3] = Slot(1, 0)
    /\ mergedInfos[1].interval = Interval(0, 2000)

\* The merged tiles that came from the tile t of child k, of a kind.
OutOf(k, kind, t) ==
    {o \in BagToSet(mergedOut) : o.child = k /\ o.kind = kind /\ o.src = t}

\* Every tile a child handed over has been returned exactly once, by the
\* get_* of its kind, with its tile_id and with offset[k] added to the
\* level-0 index of its entry_id; and every merged tile answers a merged
\* request of its kind, entry_id and tile_id.
TilesReturnedOnce ==
    /\ \A h \in BagToSet(handed) :
          CopiesIn(h, handed) = SumCopies(OutOf(h.child, h.kind, h.tile), mergedOut)
    /\ \A o \in BagToSet(mergedOut) :
          /\ BagIn([child |-> o.child, kind |-> o.kind, tile |-> o.src], handed)
          /\ o.tile.tile_id = o.src.tile_id
          /\ o.tile.entry_id = <<o.src.entry_id[1] + Offset(o.child)>>
                                  \o Tail(o.src.entry_id)
          /\ \E f \in BagToSet(forwards) :
                /\ f.kind = o.kind
                /\ f.entry_id = o.tile.entry_id
                /\ f.tile_id = o.tile.tile_id
                /\ f.idx = o.child

RECURSIVE LeqLimbs(_, _, _)
LeqLimbs(a, b, i) ==
    IF i = 0 THEN TRUE
    ELSE IF a[i] # b[i] THEN a[i] < b[i]
    ELSE LeqLimbs(a, b, i - 1)

LeqU64(a, b) == LeqLimbs(a, b, U64Limbs)

RECURSIVE DivLimbs(_, _, _, _)
DivLimbs(d, n, i, rem) ==
    IF i = 0 THEN [q |-> <<>>, r |-> rem]
    ELSE LET cur == rem * LimbBase + d[i]
             lower == DivLimbs(d, n, i - 1, cur % n)
         IN  [q |-> Append(lower.q, cur \div n), r |-> lower.r]

\* d div n and d mod n.
DivMod(d, n) == DivLimbs(d, n, U64Limbs, 0)

\* u * n + k < 2^64, that is u <= (2^64 - 1 - k) div n.
Fits(u, n, k) == LeqU64(u, DivMod([U64Max EXCEPT ![1] = @ - k], n).q)

\* 2^63 - 1
U64BelowHalf ==
    [i \in 1..U64Limbs |-> IF i = U64Limbs THEN LimbBase \div 2 - 1
                           ELSE LimbBase - 1]

\* The uids the uid function is tried on.
SampleUids == {U64(0), U64(1), U64(2), U64BelowHalf, U64Half, U64Max}

\* The items of the merged slot tiles, each with the child and the uid it
\* came from.
MergedItems ==
    UNION {UNION {{[child |-> o.child,
                    src |-> o.src.data[r][c].item_uid,
                    dst |-> o.tile.data[r][c].item_uid] :
                      c \in 1..Len(o.src.data[r])} :
                  r \in 1..Len(o.src.data)} :
           o \in {x \in BagToSet(mergedOut) : x.kind # "summary_tile"}}

\* C10 as stated: with N the number of children, every uid u of child k is
\* mapped to the d with d div N = u and d mod N = k, and distinct (child, uid)
\* pairs get distinct merged uids.
C10_UidsDistinct ==
    /\ childTilePending # EmptyBag \/ mergedOut # EmptyBag =>
          Len(mapping) = NumChildren
    /\ mapping # <<>> =>
          /\ \A k \in ChildIdx : \A u \in SampleUids :
                DivMod(MapSrcToDstItemUid(mapping, k, u).uid, NumChildren)
                    = [q |-> u, r |-> k]
    /\ \A x \in MergedItems : DivMod(x.dst, NumChildren) = [q |-> x.src, r |-> x.child]
    /\ \A x, y \in MergedItems :
          (x.child # y.child \/ x.src # y.src) => x.dst # y.dst

\* C10, corrected: the same for the uids u of child k with u * N + k < 2^64;
\* beyond that range the product overflows, and the build panics or wraps.
\* N is the number of children whenever a child holds or has answered a
\* tile request, as no fetch is forwarded under the empty mapping.
C10_UidsDistinctInRange ==
    /\ \A e \in MergedEntryIDs : ~MapDstToSrcEntry(<<>>, e).ok
    /\ childTilePending # EmptyBag \/ mergedOut # EmptyBag =>
          Len(mapping) = NumChildren
    /\ mapping # <<>> =>
          /\ \A k \in ChildIdx : \A u \in SampleUids :
                LET d == MapSrcToDstItemUid(mapping, k, u)
                IN  /\ d.overflow = ~Fits(u, NumChildren, k)
                    /\ Fits(u, NumChildren, k) =>
                          DivMod(d.uid, NumChildren) = [q |-> u, r |-> k]
    /\ \A x \in MergedItems :
          Fits(x.src, NumChildren, x.child) =>
              DivMod(x.dst, NumChildren) = [q |-> x.src, r |-> x.child]
    /\ \A x, y \in MergedItems :
          /\ Fits(x.src, NumChildren, x.child)
          /\ Fits(y.src, NumChildren, y.child)
          /\ x.child # y.child \/ x.src # y.src
          => x.dst # y.dst

\* C10 witness: a slot tile of child 1 of 2 came back with its uids 0, 1, 2
\* turned into 1, 3, 5.
C10_SmallUidsMerged ==
    \E o \in BagToSet(mergedOut) :
        /\ o.kind = "slot_tile"
        /\ NumChildren = 2
        /\ o.child = 1
        /\ o.src.data = SmallItems
        /\ o.tile.data[1][1].item_uid = U64(1)
        /\ o.tile.data[1][2].item_uid = U64(3)
        /\ o.tile.data[2][1].item_uid = U64(5)


\* dst is the uid u of child k rewritten: dst div N = u and dst mod N = k.
UidRewritten(k, u, dst) == DivMod(dst, NumChildren) = [q |-> u, r |-> k]

\* u * N + k < 2^64 for the uid u of child k, where that is asked for.
InRange(guarded, k, u) == guarded => Fits(u, NumChildren, k)

\* dst is the field src of child k rewritten as the claim says, for every
\* uid or, if guarded, for the uids in range: an ItemLink has its uid rewritten and
\* its entry_id shifted at level 0 and keeps its title and interval, a Vec
\* has its elements rewritten in place, any other variant is left alone.
RECURSIVE FieldRewritten(_, _, _, _)
FieldRewritten(k, src, dst, guarded) ==
    /\ dst.tag = src.tag
    /\ IF src.tag = "ItemLink"
       THEN /\ InRange(guarded, k, src.item_uid) => UidRewritten(k, src.item_uid, dst.item_uid)
            /\ dst.entry_id = <<src.entry_id[1] + Offset(k)>> \o Tail(src.entry_id)
            /\ dst.title = src.title
            /\ dst.interval = src.interval
       ELSE IF src.tag = "Vec"
       THEN /\ Len(dst.elts) = Len(src.elts)
            /\ \A i \in 1..Len(src.elts) :
                  FieldRewritten(k, src.elts[i], dst.elts[i], guarded)
       ELSE dst = src

\* dst is the ItemMeta src of child k rewritten: its uid and its fields
\* rewritten, the field ids, the title and the interval kept.
ItemMetaRewritten(k, src, dst, guarded) ==
    /\ InRange(guarded, k, src.item_uid) => UidRewritten(k, src.item_uid, dst.item_uid)
    /\ dst.title = src.title
    /\ dst.original_interval = src.original_interval
    /\ Len(dst.fields) = Len(src.fields)
    /\ \A i \in 1..Len(src.fields) :
          /\ dst.fields[i][1] = src.fields[i][1]
          /\ FieldRewritten(k, src.fields[i][2], dst.fields[i][2], guarded)

\* dst is the Item src of child k rewritten: only its uid changes.
ItemRewritten(k, src, dst, guarded) ==
    /\ InRange(guarded, k, src.item_uid) => UidRewritten(k, src.item_uid, dst.item_uid)
    /\ dst.interval = src.interval
    /\ dst.color = src.color

\* The rows and columns of the merged tile o are those of the child's tile.
SameShape(o) ==
    /\ Len(o.tile.data) = Len(o.src.data)
    /\ \A r \in 1..Len(o.src.data) : Len(o.tile.data[r]) = Len(o.src.data[r])

\* Every returned slot-meta and slot tile is the child's tile rewritten, and
\* the uid function gives an Item and the ItemMeta of the same uid the same
\* merged uid.
TilesRewritten(guarded) ==
    /\ \A o \in BagToSet(mergedOut) :
          /\ o.kind = "slot_meta_tile" =>
                /\ SameShape(o)
                /\ \A r \in 1..Len(o.src.data) :
                   \A c \in 1..Len(o.src.data[r]) :
                      ItemMetaRewritten(o.child, o.src.data[r][c],
                                        o.tile.data[r][c], guarded)
          /\ o.kind = "slot_tile" =>
                /\ SameShape(o)
                /\ \A r \in 1..Len(o.src.data) :
                   \A c \in 1..Len(o.src.data[r]) :
                      ItemRewritten(o.child, o.src.data[r][c],
                                    o.tile.data[r][c], guarded)
    /\ mapping # <<>> =>
          \A k \in ChildIdx : \A u \in SampleUids :
             LET req == [entry_id |-> <<0>>, tile_id |-> Interval(0, 1000)]
                 slot == MapSrcToDstSlot(mapping, k,
                             ChildTile(req, << <<Item(u)>> >>))
                 meta == MapSrcToDstSlotMeta(mapping, k,
                             ChildTile(req, << <<ItemMeta(u, <<>>)>> >>))
             IN  /\ slot.overflow = meta.overflow
                 /\ slot.tile.data[1][1].item_uid = meta.tile.data[1][1].item_uid

\* C11 as stated: in every returned SlotMetaTile of child k every ItemMeta
\* and every ItemLink, at any depth inside Vec fields, has its uid rewritten
\* to uid * N + k and its entry_id shifted by offset[k]; everything else is
\* unchanged; the Items of a SlotTile are rewritten by the same function.
C11_LinksRewritten == TilesRewritten(FALSE)

\* C11, corrected: the same, with the uid of a returned item or link equal
\* to uid * N + k for the uids with uid * N + k < 2^64; a uid beyond that
\* range is wrapped around 2^64 by a build that does not check overflow.
C11_LinksRewrittenInRange == TilesRewritten(TRUE)

\* C11 witness: a slot-meta tile of child 1 of 2 came back with the link
\* nested in a Vec turned from uid 2 to 5 and shifted to the child's offset,
\* beside an Empty field left alone.
C11_NestedLinkRewritten ==
    \E o \in BagToSet(mergedOut) :
        /\ o.kind = "slot_meta_tile"
        /\ NumChildren = 2
        /\ o.child = 1
        /\ o.src.data = SmallMetas
        /\ o.tile.data[1][2].item_uid = U64(3)
        /\ o.tile.data[1][2].fields[1][2] =
              FieldVec(<<FieldItemLink(U64(5), <<Offset(1), 0>>), FieldEmpty>>)

\* Some child's info differs from child 0's in its tile_set or field_schema.
ChildrenDisagree ==
    \E k \in 1..NumChildren :
        \/ children[k].tile_set # children[1].tile_set
        \/ children[k].field_schema # children[1].field_schema

\* A get_infos that had a delivered info to merge has failed on the
\* children's disagreement, or on anything, and no merged info was returned
\* if the children disagree.
MismatchIsFatal ==
    ChildrenDisagree =>
        /\ mergedInfos = <<>>
        /\ lastGetInfos.max > 0 => mergeFailed # NoFailure
        /\ lastGetInfos.min > 0 => mergeFailed = "assert_eq"

\* C12: if a child's delivered info differs from child 0's in tile_set or
\* field_schema, get_infos fails fatally and returns no merged info; if all
\* children agree, no failure is raised.
C12_MismatchFatal ==
    /\ MismatchIsFatal
    /\ ~ChildrenDisagree => mergeFailed = NoFailure

\* The part of C12 the code keeps: a mismatch is fatal, and children that
\* agree never fail the comparison of merge_infos.
C12_MismatchFatalOnly ==
    /\ MismatchIsFatal
    /\ ~ChildrenDisagree => mergeFailed # "assert_eq"
    /\ mergeFailed = "assert_eq" => ChildrenDisagree

(***************************************************************************)
(* Interval                                                                *)
(***************************************************************************)
\* Timestamps of the intervals the methods are called on.
MaxTime == 4
\* Largest duration_ns handed to grow and translate, either sign.
MaxAmount == 2

Times == 0..MaxTime

\* The intervals that satisfy start <= stop.
ValidIntervals == {iv \in [start : Times, stop : Times] : iv.start <= iv.stop}

\* Interval::duration_ns
DurationNs(iv) == iv.stop - iv.start

\* Interval::contains
IntervalContains(iv, point) == point >= iv.start /\ point < iv.stop

\* Interval::overlaps
IntervalOverlaps(iv, other) ==
    ~(other.stop <= iv.start \/ other.start >= iv.stop)

\* Interval::intersection
IntervalIntersection(iv, other) ==
    [start |-> IF iv.start >= other.start THEN iv.start ELSE other.start,
     stop |-> IF iv.stop <= other.stop THEN iv.stop ELSE other.stop]

\* Interval::grow
IntervalGrow(iv, duration_ns) ==
    [start |-> iv.start - duration_ns, stop |-> iv.stop + duration_ns]

\* Interval::translate
IntervalTranslate(iv, duration_ns) ==
    [start |-> iv.start + duration_ns, stop |-> iv.stop + duration_ns]

\* Two intervals that satisfy start <= stop and a duration, no method called.
InitInterval ==
    /\ DeferredIdle
    /\ MergeIdle
    /\ ArchiveIdle
    /\ ConfigIdle
    /\ DataIdle
    /\ ServerIdle
    /\ TimestampIdle
    /\ WindowIdle
    /\ LocksIdle
    /\ UniqueIdle
    /\ RepaintIdle
    /\ RandomIdle
    /\ HistoryIdle
    /\ operands \in [self : ValidIntervals, other : ValidIntervals,
                     duration_ns : (-MaxAmount)..MaxAmount]
    /\ outcome = [op |-> "none", result |-> "none"]

\* A call of a method on the operands.
Call(op, result) ==
    /\ outcome' = [op |-> op, result |-> result]
    /\ UNCHANGED operands
    /\ UNCHANGED otherThanInterval

CallOverlaps == Call("overlaps", IntervalOverlaps(operands.self, operands.other))

CallIntersection ==
    Call("intersection", IntervalIntersection(operands.self, operands.other))

CallUnion == Call("union", IntervalUnion(operands.self, operands.other))

CallGrow == Call("grow", IntervalGrow(operands.self, operands.duration_ns))

CallTranslate ==
    Call("translate", IntervalTranslate(operands.self, operands.duration_ns))

NextInterval ==
    \/ CallOverlaps
    \/ CallIntersection
    \/ CallUnion
    \/ CallGrow
    \/ CallTranslate

SpecInterval == InitInterval /\ [][NextInterval]_vars

(***************************************************************************)
(* Claims about Interval                                                   *)
(***************************************************************************)
\* Some timestamp is contained in both intervals.
CommonPoint(a, b) ==
    \E t \in Times : IntervalContains(a, t) /\ IntervalContains(b, t)

\* C19: for intervals with start <= stop, a.overlaps(b) is true exactly when
\* some timestamp is contained in both: adjacent intervals do not overlap, a
\* non-empty interval overlaps itself, an empty interval overlaps nothing,
\* and overlaps is symmetric.
C19_OverlapsIffCommonPoint ==
    outcome.op = "overlaps" =>
        LET a == operands.self
            b == operands.other
        IN  /\ outcome.result = CommonPoint(a, b)
            /\ a.stop = b.start => ~outcome.result
            /\ (a = b /\ a.start < a.stop) => outcome.result
            /\ (a.start = a.stop \/ b.start = b.stop) => ~outcome.result
            /\ outcome.result = IntervalOverlaps(b, a)

\* What overlaps does keep of C19: it is symmetric, and it is true exactly
\* when a timestamp is in both intervals as long as neither is empty; an
\* empty interval overlaps neither itself nor an interval it touches.
OverlapsOfNonEmpty ==
    outcome.op = "overlaps" =>
        LET a == operands.self
            b == operands.other
        IN  /\ (a.start < a.stop /\ b.start < b.stop) =>
                  outcome.result = CommonPoint(a, b)
            /\ a.stop = b.start => ~outcome.result
            /\ (a = b /\ a.start = a.stop) => ~outcome.result
            /\ outcome.result = IntervalOverlaps(b, a)

\* C20: intersection, union, translate, and grow by a non-negative amount,
\* applied to intervals that satisfy start <= stop, return an interval that
\* satisfies it.
C20_StartBeforeStop ==
    \/ outcome.op \in {"none", "overlaps"}
    \/ outcome.op = "grow" /\ operands.duration_ns < 0
    \/ outcome.result.start <= outcome.result.stop

\* What the methods do keep of C20: all but the intersection of two
\* intervals without a common bound or point.
StartBeforeStopUnlessDisjoint ==
    \/ outcome.op \in {"none", "overlaps"}
    \/ outcome.op = "grow" /\ operands.duration_ns < 0
    \/ /\ outcome.op = "intersection"
       /\ \/ operands.self.stop < operands.other.start
          \/ operands.other.stop < operands.self.start
    \/ outcome.result.start <= outcome.result.stop

(***************************************************************************)
(* DataSourceArchiveWriter and FileDataSource                              *)
(***************************************************************************)
\* Largest levels of a writer.
MaxLevels == 2

\* The branch_factor of a writer.
BranchFactors == {2, 3}

\* i64 division, which truncates toward zero.
TruncDiv(a, b) ==
    LET abs_a == IF a < 0 THEN -a ELSE a
        abs_b == IF b < 0 THEN -b ELSE b
    IN  IF (a < 0) = (b < 0) THEN abs_a \div abs_b ELSE -(abs_a \div abs_b)

\* u64::pow
RECURSIVE Pow(_, _)
Pow(b, n) == IF n = 0 THEN 1 ELSE b * Pow(b, n - 1)

\* EntryInfo::Summary and EntryInfo::Panel; the Option of the summary of
\* these panels is a sequence of at most one EntryInfo.
SummaryInfo == [variant |-> "Summary", color |-> "white"]

Panel(name, summary, slots) ==
    [variant |-> "Panel", short_name |-> name, summary |-> summary,
     slots |-> slots]

\* The entry trees of the archived sources: a summary beside two slots, and
\* a summary beside a slot one panel further down.
EntryTrees ==
    {Panel("root", <<SummaryInfo>>, <<Slot(0, 0), Slot(0, 1)>>),
     Panel("root", <<>>, <<Panel("node", <<SummaryInfo>>, <<Slot(0, 0)>>)>>)}

\* The intervals of the archived sources: from 0 or not, and shorter than
\* the number of tiles of a level.
ArchiveIntervals == {Interval(0, 12), Interval(5, 17), Interval(0, 1)}

\* tile_set.tiles of a dynamic source and of a static one.
ArchiveTileSets == {<<>>, << <<Interval(0, 12)>> >>}

\* The walk of walk_entry_list: the summary first, then the slots in order.
RECURSIVE Walk(_, _)
Walk(info, entry_id) ==
    IF info.variant = "Panel"
    THEN (IF info.summary # <<>>
          THEN Walk(info.summary[1], Append(entry_id, -1)) ELSE <<>>)
         \o Flatten([i \in 1..Len(info.slots) |->
                        Walk(info.slots[i], Append(entry_id, i - 1))])
    ELSE <<entry_id>>

\* walk_entry_list that skips the summaries.
RECURSIVE WalkSlots(_, _)
WalkSlots(info, entry_id) ==
    IF info.variant = "Panel"
    THEN Flatten([i \in 1..Len(info.slots) |->
                     WalkSlots(info.slots[i], Append(entry_id, i - 1))])
    ELSE <<entry_id>>

WalkEntryListSlotsOnly(info) == WalkSlots(info, <<>>)

\* walk_entry_list
WalkEntryList(info) == Walk(info, <<>>)

\* EntryID::last_index
LastIndex(entry_id) ==
    IF entry_id = <<>> THEN "None"
    ELSE IF entry_id[Len(entry_id)] < 0 THEN "Summary" ELSE "Slot"

\* write, lines 193-201: the tile_ids of a level.
LevelTileIds(interval, branch_factor, level) ==
    LET num_tiles == Pow(branch_factor, level)
        duration == DurationNs(interval)
    IN  [n \in 1..num_tiles |->
            Interval(TruncDiv(duration * (n - 1), num_tiles),
                     TruncDiv(duration * n, num_tiles))]

\* The text of a path or slug: a sequence of pieces, one per digit, sign,
\* separator or directory name.
DigitChars == <<"0", "1", "2", "3", "4", "5", "6", "7", "8", "9">>

RECURSIVE Digits(_)
Digits(n) ==
    IF n < 10 THEN <<DigitChars[n + 1]>>
    ELSE Digits(n \div 10) \o <<DigitChars[(n % 10) + 1]>>

\* Display of an i64
Decimal(n) == IF n < 0 THEN <<"-">> \o Digits(-n) ELSE Digits(n)

\* Display of EntryIDSlug
RECURSIVE EntryIDSlug(_)
EntryIDSlug(entry_id) ==
    IF entry_id = <<>> THEN <<>>
    ELSE IF Len(entry_id) = 1 THEN Decimal(entry_id[1])
    ELSE Decimal(Head(entry_id)) \o <<"_">> \o EntryIDSlug(Tail(entry_id))

\* Display of TileIDSlug
TileIDSlug(tile_id) ==
    Decimal(tile_id.start) \o <<"_">> \o Decimal(tile_id.stop)

\* TileRequestRef::to_slug
ToSlug(entry_id, tile_id) ==
    EntryIDSlug(entry_id) \o <<"/">> \o TileIDSlug(tile_id)

\* Path::join and PathBuf::push: an absolute text replaces the path.
PathJoin(path, text) ==
    IF text # <<>> /\ text[1] = "/" THEN text ELSE path \o <<"/">> \o text

\* Path::parent, as text
RECURSIVE PathParent(_)
PathParent(path) ==
    IF path = <<>> THEN <<>>
    ELSE IF path[Len(path)] = "/" THEN SubSeq(path, 1, Len(path) - 1)
    ELSE PathParent(SubSeq(path, 1, Len(path) - 1))

\* DataSourceArchiveWriter::path, once create_unique_dir has made it.
ArchiveDir == <<"archive">>

Directory == [type |-> "dir"]

IsDir(fs, path) == path \in DOMAIN fs /\ fs[path].type = "dir"

\* fs with content at path.
WithFile(fs, path, content) ==
    [p \in DOMAIN fs \cup {path} |-> IF p = path THEN content ELSE fs[p]]

\* std::fs::create_dir: fails if the path exists or its parent is no
\* directory.
CreateDir(fs, path) ==
    IF path \in DOMAIN fs \/ ~IsDir(fs, PathParent(path))
    THEN [ok |-> FALSE, fs |-> fs]
    ELSE [ok |-> TRUE, fs |-> WithFile(fs, path, Directory)]

\* create_dir of each path in turn, until one fails.
RECURSIVE CreateDirs(_, _)
CreateDirs(fs, paths) ==
    IF paths = <<>> THEN [ok |-> TRUE, fs |-> fs]
    ELSE LET r == CreateDir(fs, Head(paths))
         IN  IF r.ok THEN CreateDirs(r.fs, Tail(paths)) ELSE r

\* write_data: File::create, then the CBOR of the data, zstd-compressed.
WriteData(fs, path, data) ==
    IF IsDir(fs, path) \/ ~IsDir(fs, PathParent(path))
    THEN [ok |-> FALSE, fs |-> fs]
    ELSE [ok |-> TRUE,
          fs |-> WithFile(fs, path, [type |-> "file",
                                     zstd |-> [cbor |-> data]])]

\* FileDataSource::read_file: open, zstd-decode, CBOR-decode.
ReadFile(fs, path) ==
    IF path \notin DOMAIN fs \/ fs[path].type # "file"
    THEN [ok |-> FALSE, data |-> "opening file failed"]
    ELSE [ok |-> TRUE, data |-> fs[path].zstd.cbor]

\* The path FileDataSource reads for fetch_info and for fetch_<kind>.
FileInfoPath(basedir) == PathJoin(basedir, <<"info">>)

\* A reader that looks for every kind of tile under summary_tile.
FileTilePathOneDir(basedir, kind, entry_id, tile_id) ==
    PathJoin(PathJoin(basedir, <<"summary_tile">>), ToSlug(entry_id, tile_id))

FileTilePath(basedir, kind, entry_id, tile_id) ==
    PathJoin(PathJoin(basedir, <<kind>>), ToSlug(entry_id, tile_id))

\* FileDataSource::fetch_info
FileFetchInfo(fs, basedir) == ReadFile(fs, FileInfoPath(basedir))

\* FileDataSource::fetch_summary_tile / fetch_slot_tile / fetch_slot_meta_tile
FileFetchTile(fs, basedir, kind, entry_id, tile_id) ==
    ReadFile(fs, FileTilePath(basedir, kind, entry_id, tile_id))

\* The tile the data source returns for a fetch: stamped with the entry_id
\* and tile_id it was asked for, and filled as the request asks.
SourceTile(kind, req) ==
    [entry_id |-> req.entry_id, tile_id |-> req.tile_id,
     data |-> [kind |-> kind, full |-> req.full]]

\* The fetches write makes for the entries at a level, by kind, in order;
\* fetch_summary_tile takes no full.
LevelFetches(entry_ids, tile_ids, full) ==
    LET of(kind, last, f) ==
            Flatten([i \in 1..Len(entry_ids) |->
                IF LastIndex(entry_ids[i]) # last THEN <<>>
                ELSE [t \in 1..Len(tile_ids) |->
                         [entry_id |-> entry_ids[i], tile_id |-> tile_ids[t],
                          full |-> f]]])
    IN  [summary_tile |-> of("summary_tile", "Summary", "none"),
         slot_tile |-> of("slot_tile", "Slot", full),
         slot_meta_tile |-> of("slot_meta_tile", "Slot", full)]

\* A counter that fetch_<kind> increments and get_<kind>s does not decrement.
OutstandingSubmitted == SeqSum([l \in 1..Len(fetched) |->
    Cardinality(fetched[l])])

\* CountingDeferredDataSource::outstanding_requests
Outstanding == SeqSum([i \in 1..3 |->
    Len(pending[<<"summary_tile", "slot_tile", "slot_meta_tile">>[i]])])

NoPending == [kind \in TileKinds |-> <<>>]

\* DataSourceArchiveWriter::new over a data source, and the start of write.
InitArchive ==
    /\ DeferredIdle
    /\ MergeIdle
    /\ IntervalIdle
    /\ ConfigIdle
    /\ DataIdle
    /\ ServerIdle
    /\ TimestampIdle
    /\ WindowIdle
    /\ LocksIdle
    /\ UniqueIdle
    /\ RepaintIdle
    /\ RandomIdle
    /\ HistoryIdle
    /\ source \in [entry_info : EntryTrees, interval : ArchiveIntervals,
                   tile_set : ArchiveTileSets, field_schema : {"schema_a"}]
    /\ writer \in [levels : 1..MaxLevels, branch_factor : BranchFactors]
    /\ pc = "create_dirs"
    /\ local = [info |-> <<>>, entry_ids |-> <<>>, level |-> 0,
                tile_ids |-> <<>>, tile_set |-> <<>>]
    /\ pending = NoPending
    /\ files = <<>>
    /\ fetched = <<>>
    /\ written = {}

\* write, lines 160-166: the output directory and the three kind
\* directories are created, or an I/O error is returned; fetch_info.
WriteCreateDirs(io_ok) ==
    /\ pc = "create_dirs"
    /\ IF io_ok
       THEN /\ files' = [p \in {ArchiveDir} \cup
                               {PathJoin(ArchiveDir, <<kind>>) : kind \in TileKinds}
                           |-> Directory]
            /\ pc' = "check_info"
       ELSE /\ pc' = "Err"
            /\ UNCHANGED files
    /\ UNCHANGED <<source, writer, local, pending, fetched, written>>
    /\ UNCHANGED otherThanArchive

\* write, lines 168-188: one turn of the loop on check_info, and, once the
\* info is there, the entry walk, the entry directories and the assertion
\* on the tile set.
WriteCheckInfo(answered) ==
    /\ pc = "check_info"
    /\ IF ~answered
       THEN UNCHANGED <<local, files, pc>>
       ELSE LET info == source
                entry_ids == WalkEntryList(info.entry_info)
                dirs == Flatten([i \in 1..Len(entry_ids) |->
                    IF LastIndex(entry_ids[i]) = "Summary"
                    THEN <<PathJoin(PathJoin(ArchiveDir, <<"summary_tile">>),
                                    EntryIDSlug(entry_ids[i]))>>
                    ELSE <<PathJoin(PathJoin(ArchiveDir, <<"slot_tile">>),
                                    EntryIDSlug(entry_ids[i])),
                           PathJoin(PathJoin(ArchiveDir, <<"slot_meta_tile">>),
                                    EntryIDSlug(entry_ids[i]))>>])
                made == CreateDirs(files, dirs)
            IN  /\ local' = [local EXCEPT !.info = info, !.entry_ids = entry_ids]
                /\ files' = made.fs
                /\ pc' = IF \E i \in 1..Len(entry_ids) :
                               LastIndex(entry_ids[i]) = "None"
                         THEN "panic"
                         ELSE IF ~made.ok THEN "Err"
                         ELSE IF info.tile_set # <<>> THEN "panic"
                         ELSE "fetch"
    /\ UNCHANGED <<source, writer, pending, fetched, written>>
    /\ UNCHANGED otherThanArchive

\* write, lines 192-219: the tile_ids of the level, and a fetch for every
\* entry and tile.
WriteFetchLevel ==
    /\ pc = "fetch"
    /\ LET tile_ids == LevelTileIds(local.info.interval, writer.branch_factor,
                                    local.level)
           full == local.level = writer.levels - 1
           reqs == LevelFetches(local.entry_ids, tile_ids, full)
       IN  /\ local' = [local EXCEPT !.tile_ids = tile_ids]
           /\ pending' = [kind \in TileKinds |-> pending[kind] \o reqs[kind]]
           /\ fetched' = Append(fetched,
                 UNION {{[kind |-> kind, entry_id |-> reqs[kind][i].entry_id,
                          tile_id |-> reqs[kind][i].tile_id] :
                            i \in 1..Len(reqs[kind])} : kind \in TileKinds})
    /\ pc' = "drain"
    /\ UNCHANGED <<source, writer, files, written>>
    /\ UNCHANGED otherThanArchive

\* The tile of a kind the data source returns for a fetch, with the path
\* write_<kind>s writes it to.
TileWrite(kind, req, level) ==
    LET tile == SourceTile(kind, req)
    IN  [kind |-> kind, tile |-> tile, level |-> level,
         path |-> PathJoin(PathJoin(ArchiveDir, <<kind>>),
                           ToSlug(tile.entry_id, tile.tile_id))]

\* fs after the spawned write_data of every write in ws; the writes of one
\* turn that share a path carry the same tile.
WriteAll(fs, ws) ==
    LET paths == {w.path : w \in ws}
    IN  [ok |-> \A p \in paths : ~IsDir(fs, p) /\ IsDir(fs, PathParent(p)),
         fs |-> [p \in DOMAIN fs \cup paths |->
                    IF p \in paths
                    THEN [type |-> "file",
                          zstd |-> [cbor |-> (CHOOSE w \in ws : w.path = p).tile]]
                    ELSE fs[p]]]

\* write, lines 222-226: one turn of the drain loop, in which the data
\* source returns its first n[kind] tiles of each kind, and each is written
\* to its file; a write that fails panics.
WriteDrain(n) ==
    /\ pc = "drain"
    /\ Outstanding > 0
    /\ \A kind \in TileKinds : n[kind] <= Len(pending[kind])
    /\ LET ws == UNION {{TileWrite(kind, pending[kind][i], local.level) :
                            i \in 1..n[kind]} : kind \in TileKinds}
           done == WriteAll(files, ws)
       IN  /\ pending' = [kind \in TileKinds |->
                 SubSeq(pending[kind], n[kind] + 1, Len(pending[kind]))]
           /\ files' = done.fs
           /\ written' = written \cup ws
           /\ pc' = IF done.ok THEN "drain" ELSE "panic"
    /\ UNCHANGED <<source, writer, local, fetched>>
    /\ UNCHANGED otherThanArchive

\* write, lines 222-229: nothing is outstanding, the spawned writes are
\* joined, and the tile_ids of the level are pushed.
WriteLevelDone ==
    /\ pc = "drain"
    /\ Outstanding = 0
    /\ local' = [local EXCEPT !.tile_set = Append(@, local.tile_ids),
                              !.level = @ + 1]
    /\ pc' = IF local.level + 1 < writer.levels THEN "fetch" ELSE "write_info"
    /\ UNCHANGED <<source, writer, pending, files, fetched, written>>
    /\ UNCHANGED otherThanArchive

\* write, lines 232-238: the info, with the tile set, is written.
WriteInfo ==
    /\ pc = "write_info"
    /\ LET info == [local.info EXCEPT !.tile_set = local.tile_set]
           done == WriteData(files, PathJoin(ArchiveDir, <<"info">>), info)
       IN  /\ local' = [local EXCEPT !.info = info]
           /\ files' = done.fs
           /\ pc' = IF done.ok THEN "Ok" ELSE "panic"
    /\ UNCHANGED <<source, writer, pending, fetched, written>>
    /\ UNCHANGED otherThanArchive

\* What the get_X of the data source can return in a turn of the drain
\* loop: nothing, the oldest tile, or all tiles of the kind.
DrainChoice(kind) ==
    {0, Len(pending[kind])} \cup (IF pending[kind] = <<>> THEN {} ELSE {1})

DrainChoices ==
    [summary_tile : DrainChoice("summary_tile"),
     slot_tile : DrainChoice("slot_tile"),
     slot_meta_tile : DrainChoice("slot_meta_tile")]

NextArchive ==
    \/ \E io_ok \in BOOLEAN : WriteCreateDirs(io_ok)
    \/ \E answered \in BOOLEAN : WriteCheckInfo(answered)
    \/ WriteFetchLevel
    \/ \E n \in DrainChoices : WriteDrain(n)
    \/ WriteLevelDone
    \/ WriteInfo

SpecArchive == InitArchive /\ [][NextArchive]_vars

(***************************************************************************)
(* Claims about the archive writer and the file reader                     *)
(***************************************************************************)
\* The tile_ids are n intervals in ascending order that partition T.
TilesPartition(tile_ids, n, T) ==
    /\ Len(tile_ids) = n
    /\ tile_ids[1].start = T.start
    /\ tile_ids[n].stop = T.stop
    /\ \A i \in 1..n : tile_ids[i].start <= tile_ids[i].stop
    /\ \A i \in 1..(n - 1) : tile_ids[i].stop = tile_ids[i + 1].start

\* Every level the writer has computed tile_ids for, with those tile_ids.
LevelsComputed ==
    IF pc = "idle" THEN {}
    ELSE {[level |-> l - 1, tile_ids |-> local.tile_set[l]] :
              l \in 1..Len(local.tile_set)}
         \cup (IF pc = "drain"
               THEN {[level |-> local.level, tile_ids |-> local.tile_ids]}
               ELSE {})

\* C13: the TileIDs write computes for level l are exactly B^l intervals in
\* ascending order that partition T = info.interval, from T.start to T.stop
\* without gap or overlap, also for a T that does not start at 0.
C13_LevelTilesPartitionTotal ==
    \A c \in LevelsComputed :
        TilesPartition(c.tile_ids, writer.branch_factor ^ c.level,
                       source.interval)

\* What write does keep of C13: the TileIDs of level l are B^l intervals
\* that partition [0, duration of T), which is T only if T starts at 0.
LevelTilesPartitionFromZero ==
    \A c \in LevelsComputed :
        TilesPartition(c.tile_ids, writer.branch_factor ^ c.level,
                       Interval(0, DurationNs(source.interval)))

\* The EntryInfo at the end of a path in an entry tree: a sequence of at
\* most one.
RECURSIVE EntryAt(_, _)
EntryAt(info, path) ==
    IF path = <<>> THEN <<info>>
    ELSE IF info.variant # "Panel" THEN <<>>
    ELSE IF Head(path) = -1
    THEN (IF Tail(path) = <<>> THEN info.summary ELSE <<>>)
    ELSE IF Head(path) + 1 \in 1..Len(info.slots)
    THEN EntryAt(info.slots[Head(path) + 1], Tail(path))
    ELSE <<>>

\* The EntryIDs of the entries of a variant in the tree of the source.
EntriesOf(variant) ==
    {e \in UNION {[1..n -> -1..2] : n \in 1..3} :
        /\ EntryAt(source.entry_info, e) # <<>>
        /\ EntryAt(source.entry_info, e)[1].variant = variant}

\* A tile of the kind was handed to spawn_write for the entry and tile_id,
\* and the file it was written to is in the archive.
HasTileFile(kind, entry_id, tile_id) ==
    \E w \in written :
        /\ w.kind = kind
        /\ w.tile.entry_id = entry_id
        /\ w.tile.tile_id = tile_id
        /\ w.path \in DOMAIN files
        /\ files[w.path].type = "file"

\* The info as it is in the archive.
WrittenInfo == files[ArchiveDir \o <<"/", "info">>].zstd.cbor

\* C14: when write returns Ok, the written info has tile_set.tiles of length
\* L, entry l has length B^l and lists exactly the TileIDs fetched at level
\* l, and for each of them a summary_tile file is written for every Summary
\* entry of the tree, and a slot_tile and a slot_meta_tile file for every
\* Slot entry.
C14_TileSetAndFilesWritten ==
    pc = "Ok" =>
        LET tiles == WrittenInfo.tile_set
        IN  /\ Len(tiles) = writer.levels
            /\ Len(fetched) = writer.levels
            /\ \A l \in 1..Len(tiles) :
                  /\ Len(tiles[l]) = writer.branch_factor ^ (l - 1)
                  /\ {tiles[l][i] : i \in 1..Len(tiles[l])}
                        = {f.tile_id : f \in fetched[l]}
                  /\ \A i \in 1..Len(tiles[l]) :
                        /\ \A e \in EntriesOf("Summary") :
                              HasTileFile("summary_tile", e, tiles[l][i])
                        /\ \A e \in EntriesOf("Slot") :
                              /\ HasTileFile("slot_tile", e, tiles[l][i])
                              /\ HasTileFile("slot_meta_tile", e, tiles[l][i])

\* C14 witness: a writer of 2 levels and branch factor 3 has returned Ok
\* over the tree with a summary and two slots: 4 tile_ids, and a file for
\* each of the 4 + 8 + 8 tiles.
C14_TwoLevelsWritten ==
    /\ pc = "Ok"
    /\ writer = [levels |-> 2, branch_factor |-> 3]
    /\ source.interval = Interval(0, 12)
    /\ EntriesOf("Summary") = {<<-1>>}
    /\ EntriesOf("Slot") = {<<0>>, <<1>>}
    /\ WrittenInfo.tile_set =
          << <<Interval(0, 12)>>,
             <<Interval(0, 4), Interval(4, 8), Interval(8, 12)>> >>
    /\ Cardinality({p \in DOMAIN files : files[p].type = "file"}) = 21

\* The reader opened on the archive directory returns, for the entry_id and
\* tile_id of a written tile, what is in the file the writer wrote it to.
ReadsWhatWasWritten(w) ==
    /\ FileTilePath(ArchiveDir, w.kind, w.tile.entry_id, w.tile.tile_id) = w.path
    /\ FileFetchTile(files, ArchiveDir, w.kind, w.tile.entry_id,
                     w.tile.tile_id).ok

ReadsBack(w) ==
    FileFetchTile(files, ArchiveDir, w.kind, w.tile.entry_id, w.tile.tile_id)
        = [ok |-> TRUE, data |-> w.tile]

\* The paths of the written tiles tell their kind, entry_id and tile_id, and
\* fetch_info returns the written info.
PathsAndInfoAgree ==
    /\ \A w1, w2 \in written :
          w1.path = w2.path =>
              /\ w1.kind = w2.kind
              /\ w1.tile.entry_id = w2.tile.entry_id
              /\ w1.tile.tile_id = w2.tile.tile_id
    /\ FileFetchInfo(files, ArchiveDir) = [ok |-> TRUE, data |-> local.info]
    /\ local.info.tile_set = local.tile_set

LastWritten(w) ==
    \A w2 \in written :
        /\ w2.kind = w.kind
        /\ w2.tile.entry_id = w.tile.entry_id
        /\ w2.tile.tile_id = w.tile.tile_id
        => w2.level <= w.level

TilesComputed ==
    UNION {{[level |-> lv.level, place |-> n, tile_id |-> lv.tile_ids[n]] :
               n \in 1..Len(lv.tile_ids)} : lv \in LevelsComputed}

DistinctSlugs ==
    \A a, b \in TilesComputed :
        TileIDSlug(a.tile_id) = TileIDSlug(b.tile_id) => a = b

\* C36: within one run of write no two tile writes target the same path:
\* the TileIDs of all levels have pairwise distinct slugs, also when the
\* duration of the source is smaller than the number of tiles of a level,
\* and no written file is written by another tile.
C36_NoTwoWritesToOnePath ==
    /\ DistinctSlugs
    /\ \A w1, w2 \in written : w1.path = w2.path => w1 = w2

\* What write does keep of C36: the slugs are distinct, and no path is
\* written twice, when the source lasts at least as long as the number of
\* tiles of the last level.
DistinctPathsOfLongSources ==
    (pc # "idle" /\ DurationNs(source.interval)
                       >= writer.branch_factor ^ (writer.levels - 1)) =>
        C36_NoTwoWritesToOnePath

(***************************************************************************)
(* DataSourceArchiveWriter::write, with the spawned writes as steps of     *)
(* their own                                                               *)
(***************************************************************************)
\* The entry trees of the sources: a summary, and a slot.
ScopeTrees ==
    {Panel("root", <<SummaryInfo>>, <<>>),
     Panel("root", <<>>, <<Slot(0, 0)>>)}

\* DataSourceArchiveWriter::new over a dynamic data source, and the start of
\* write; spawned are the writes that were spawned and have not run.
InitScope ==
    /\ DeferredIdle
    /\ MergeIdle
    /\ IntervalIdle
    /\ ConfigIdle
    /\ DataIdle
    /\ ServerIdle
    /\ TimestampIdle
    /\ WindowIdle
    /\ LocksIdle
    /\ UniqueIdle
    /\ RepaintIdle
    /\ RandomIdle
    /\ HistoryIdle
    /\ source \in [entry_info : ScopeTrees, interval : {Interval(0, 12)},
                   tile_set : {<<>>}, field_schema : {"schema_a"}]
    /\ writer \in [levels : 1..MaxLevels, branch_factor : {2}]
    /\ pc = "create_dirs"
    /\ local = [info |-> <<>>, entry_ids |-> <<>>, level |-> 0,
                tile_ids |-> <<>>, tile_set |-> <<>>, spawned |-> {}]
    /\ pending = NoPending
    /\ files = <<>>
    /\ fetched = <<>>
    /\ written = {}

\* write, lines 222-226: one turn of the drain loop, in which the data
\* source returns its first n[kind] tiles of each kind, and write_<kind>s
\* spawns a write of each in the scope.
SpawnDrain(n) ==
    /\ pc = "drain"
    /\ Outstanding > 0
    /\ \A kind \in TileKinds : n[kind] <= Len(pending[kind])
    /\ pending' = [kind \in TileKinds |->
          SubSeq(pending[kind], n[kind] + 1, Len(pending[kind]))]
    /\ local' = [local EXCEPT !.spawned = @ \cup
          UNION {{TileWrite(kind, pending[kind][i], local.level) :
                     i \in 1..n[kind]} : kind \in TileKinds}]
    /\ UNCHANGED <<source, writer, pc, files, fetched, written>>
    /\ UNCHANGED otherThanArchive

\* spawn_write, lines 62-65: a spawned write runs on a thread of the pool;
\* a write that fails panics.
SpawnedWrite(w) ==
    /\ pc \notin {"Err", "panic"}
    /\ w \in local.spawned
    /\ LET done == WriteData(files, w.path, w.tile)
       IN  /\ files' = done.fs
           /\ pc' = IF done.ok THEN pc ELSE "panic"
    /\ written' = written \cup {w}
    /\ local' = [local EXCEPT !.spawned = @ \ {w}]
    /\ UNCHANGED <<source, writer, pending, fetched>>
    /\ UNCHANGED otherThanArchive

\* A scope that returns with its closure, while spawned writes have not run.
ScopeLeft == TRUE

\* rayon::in_place_scope returns once its closure has returned and every
\* write spawned in the scope has run.
ScopeJoined == local.spawned = {}

\* write, lines 221-229: nothing is outstanding, the scope of the level is
\* joined, and the tile_ids of the level are pushed.
ScopeLevelDone ==
    /\ pc = "drain"
    /\ Outstanding = 0
    /\ ScopeJoined
    /\ local' = [local EXCEPT !.tile_set = Append(@, local.tile_ids),
                              !.level = @ + 1]
    /\ pc' = IF local.level + 1 < writer.levels THEN "fetch" ELSE "write_info"
    /\ UNCHANGED <<source, writer, pending, files, fetched, written>>
    /\ UNCHANGED otherThanArchive

\* write, lines 232-235: the tile set is put into the info, and write_info
\* spawns the write of the info in a scope of its own.
SpawnInfo ==
    /\ pc = "write_info"
    /\ local' = [local EXCEPT !.info = [@ EXCEPT !.tile_set = local.tile_set]]
    /\ pc' = "info_spawned"
    /\ UNCHANGED <<source, writer, pending, files, fetched, written>>
    /\ UNCHANGED otherThanArchive

\* spawn_write, lines 62-65: the spawned write of the info runs.
SpawnedInfoWrite ==
    /\ pc = "info_spawned"
    /\ LET done == WriteData(files, FileInfoPath(ArchiveDir), local.info)
       IN  /\ files' = done.fs
           /\ pc' = IF done.ok THEN "info_written" ELSE "panic"
    /\ UNCHANGED <<source, writer, local, pending, fetched, written>>
    /\ UNCHANGED otherThanArchive

\* write, lines 234-238: the scope of the info is joined and write returns.
ScopeInfoDone ==
    /\ pc = "info_written"
    /\ ScopeJoined
    /\ pc' = "Ok"
    /\ UNCHANGED <<source, writer, local, pending, files, fetched, written>>
    /\ UNCHANGED otherThanArchive

NextScope ==
    \/ \E io_ok \in BOOLEAN : WriteCreateDirs(io_ok)
    \/ \E answered \in BOOLEAN : WriteCheckInfo(answered)
    \/ WriteFetchLevel
    \/ \E n \in DrainChoices : SpawnDrain(n)
    \/ \E w \in local.spawned : SpawnedWrite(w)
    \/ ScopeLevelDone
    \/ SpawnInfo
    \/ SpawnedInfoWrite
    \/ ScopeInfoDone

SpecScope == InitScope /\ [][NextScope]_vars

(***************************************************************************)
(* Claims about the order of the writes                                    *)
(***************************************************************************)
\* The write of every tile fetched so far has run: none is outstanding or
\* spawned, and each is written, at its level, to its file.
TileWritesCompleted ==
    /\ Outstanding = 0
    /\ local.spawned = {}
    /\ \A l \in 1..Len(fetched) : \A f \in fetched[l] :
          \E w \in written :
              /\ w.kind = f.kind
              /\ w.tile.entry_id = f.entry_id
              /\ w.tile.tile_id = f.tile_id
              /\ w.level = l - 1
              /\ ReadFile(files, w.path).ok

InfoWritten == ReadFile(files, FileInfoPath(ArchiveDir)).ok

\* C29: in write, the fetches of level l+1 are submitted only after all
\* results of level l are drained and their writes have completed; the info
\* is written only after the tile writes of all levels have completed; and
\* every spawned write has completed before write returns.
C29_WritesJoined ==
    [][/\ Len(fetched') > Len(fetched) => TileWritesCompleted
       /\ (InfoWritten' /\ ~InfoWritten) =>
             Len(fetched) = writer.levels /\ TileWritesCompleted
       /\ pc' = "Ok" => TileWritesCompleted' /\ InfoWritten'
      ]_vars

\* The second level is drained while writes of it have not run: the scope
\* waits for them.
C29_ScopeWaitsForWrites ==
    /\ pc = "drain"
    /\ Len(fetched) = 2
    /\ Outstanding = 0
    /\ local.spawned # {}
    /\ \E w \in written : w.level = 1

(***************************************************************************)
(* Termination of write                                                    *)
(***************************************************************************)
\* The data source yields a result of every fetch at some turn of the loop
\* that waits for it, the calling thread runs its next step, and the
\* threads of the pool run the writes that were spawned.
FairScope ==
    /\ WF_vars(WriteCheckInfo(TRUE))
    /\ WF_vars(NextScope)

SpecScopeLive == SpecScope /\ FairScope

WriteReturned == pc \in {"Ok", "Err", "panic"}

\* Every tile fetched at the level that is drained is handed to a write
\* task: its write is spawned or has run.
LevelHandedToWrites ==
    \A f \in fetched[Len(fetched)] :
        \E w \in written \cup local.spawned :
            /\ w.kind = f.kind
            /\ w.tile.entry_id = f.entry_id
            /\ w.tile.tile_id = f.tile_id
            /\ w.level = Len(fetched) - 1

\* C37: write terminates for every data source that yields one result per
\* fetch: the loop that waits for the info ends, and the drain loop of each
\* level ends, with no request outstanding and with every result of the
\* level handed to a write task.
C37_WriteTerminates ==
    /\ <>WriteReturned
    /\ (pc = "check_info") ~> (pc # "check_info")
    /\ \A l \in 0..(MaxLevels - 1) :
          (pc = "drain" /\ local.level = l) ~>
              (WriteReturned \/ local.level = l + 1)
    /\ [][local.level' = local.level + 1 =>
             Outstanding = 0 /\ LevelHandedToWrites]_vars

\* write has returned Ok after the drain loops of two levels.
C37_ReturnedAfterTwoLevels ==
    /\ pc = "Ok"
    /\ local.level = 2
    /\ Len(fetched) = 2
    /\ Outstanding = 0
(***************************************************************************)
(* Config::request_tiles                                                   *)
(***************************************************************************)
\* Largest timestamp of the view intervals of the small configurations; the
\* views start at -1, before every total interval.
MaxView == 7

ViewTimes == (-1)..MaxView

\* The view intervals request_tiles is called with: every interval with
\* start <= stop over ViewTimes, and a view of 10_000 ns.
ViewIntervals ==
    {iv \in [start : ViewTimes, stop : ViewTimes] : iv.start <= iv.stop}
        \cup {Interval(100000, 110000)}

\* A level of a TileSet: num_tiles tiles that divide the interval evenly.
PartitionLevel(interval, num_tiles) ==
    [n \in 1..num_tiles |->
        Interval(interval.start
                     + TruncDiv(DurationNs(interval) * (n - 1), num_tiles),
                 interval.start
                     + TruncDiv(DurationNs(interval) * n, num_tiles))]

\* A TileSet of the given number of levels, level l of branch_factor^l tiles.
PartitionTileSet(interval, branch_factor, levels) ==
    [l \in 1..levels |-> PartitionLevel(interval, Pow(branch_factor, l - 1))]

\* Config::new: the interval and tile_set of the DataSourceInfo, no request
\* made yet.
ConfigNew(interval, tile_set) ==
    [interval |-> interval, tile_set |-> tile_set,
     last_request_interval |-> <<>>, request_tile_cache |-> <<>>]

\* The configurations: dynamic and static sources over three small
\* intervals, and a static source of 1_000_000 ns with four levels of
\* branch factor 10.
Configs ==
    {ConfigNew(iv, <<>>) : iv \in {Interval(0, 6), Interval(1, 5)}}
        \cup {ConfigNew(iv, PartitionTileSet(iv, 2, 3)) :
                 iv \in {Interval(0, 6), Interval(1, 5), Interval(0, 1)}}
        \cup {ConfigNew(iv, PartitionTileSet(iv, 3, 2)) :
                 iv \in {Interval(0, 6)}}
        \cup {ConfigNew(Interval(0, 1000000),
                        PartitionTileSet(Interval(0, 1000000), 10, 4))}

Key(n) == [ok |-> TRUE, key |-> n]

DivisionByZero == [ok |-> FALSE, key |-> 0]

\* The key of a level in request_tiles, lines 1404-1411: the quotient of the
\* duration of its first tile and the requested duration, the larger one
\* divided by the smaller; a division by zero panics, as does the unwrap
\* of the first tile of a level without tiles.
LevelKey(level, request_duration) ==
    IF level = <<>> THEN DivisionByZero
    ELSE LET d == DurationNs(level[1])
         IN  IF d < request_duration
                 THEN IF d = 0 THEN DivisionByZero
                      ELSE Key(TruncDiv(request_duration, d))
                 ELSE IF request_duration = 0 THEN DivisionByZero
                      ELSE Key(TruncDiv(d, request_duration))

\* The last of the positions with the least key.
MinByKeyLast(keys) ==
    LET fold[i \in 1..Len(keys)] ==
            IF i = 1 THEN 1
            ELSE IF keys[i] <= keys[fold[i - 1]] THEN i ELSE fold[i - 1]
    IN  fold[Len(keys)]

\* Iterator::min_by_key: the position of the least key, the first of them
\* when several are least.
MinByKey(keys) ==
    LET fold[i \in 1..Len(keys)] ==
            IF i = 1 THEN 1
            ELSE IF keys[i] < keys[fold[i - 1]] THEN i ELSE fold[i - 1]
    IN  fold[Len(keys)]

\* The view itself, not cut to the interval of the source.
RequestIntervalUncut(cfg, view_interval) == view_interval

\* request_tiles, line 1386
RequestInterval(cfg, view_interval) ==
    IntervalIntersection(view_interval, cfg.interval)

\* request_tiles, lines 1415-1420: the tiles of the level the request
\* interval overlaps, in the order of the level.
OverlappingTiles(level, request_interval) ==
    LET Overlapped(tile) == IntervalOverlaps(request_interval, tile)
    IN  SelectSeq(level, Overlapped)

TilesReturned(view_interval, chosen_level, tiles) ==
    [view |-> view_interval, status |-> "returned",
     chosen_level |-> chosen_level, tiles |-> tiles]

\* A window on a source that was just opened.
InitConfig ==
    /\ DeferredIdle
    /\ MergeIdle
    /\ IntervalIdle
    /\ ArchiveIdle
    /\ DataIdle
    /\ ServerIdle
    /\ TimestampIdle
    /\ WindowIdle
    /\ LocksIdle
    /\ UniqueIdle
    /\ RepaintIdle
    /\ RandomIdle
    /\ HistoryIdle
    /\ config \in Configs
    /\ request = [view |-> Interval(0, 0), status |-> "none",
                  chosen_level |-> -1, tiles |-> <<>>]

\* Config::request_tiles(view_interval). chosen_level is the position of
\* the chosen level in the tile_set, counted from 0, and -1 when no level
\* is chosen.
RequestTiles(view_interval) ==
    /\ request.status # "panic"
    /\ LET request_interval == RequestInterval(config, view_interval)
           request_duration == DurationNs(request_interval)
           keys == [l \in 1..Len(config.tile_set) |->
                       LevelKey(config.tile_set[l], request_duration)]
       IN  IF config.last_request_interval = <<request_interval>>
               THEN /\ request' = TilesReturned(view_interval, -1,
                                           config.request_tile_cache)
                    /\ UNCHANGED config
           ELSE IF config.tile_set = <<>>
               THEN /\ config' = [config EXCEPT
                            !.request_tile_cache = <<request_interval>>]
                    /\ request' = TilesReturned(view_interval, -1,
                                           <<request_interval>>)
           ELSE IF \E l \in 1..Len(keys) : ~keys[l].ok
               THEN /\ request' = [view |-> view_interval,
                                   status |-> "panic",
                                   chosen_level |-> -1, tiles |-> <<>>]
                    /\ UNCHANGED config
           ELSE LET chosen == MinByKey([l \in 1..Len(keys) |-> keys[l].key])
                    tiles == OverlappingTiles(config.tile_set[chosen],
                                              request_interval)
                IN  /\ config' = [config EXCEPT !.request_tile_cache = tiles]
                    /\ request' = TilesReturned(view_interval, chosen - 1, tiles)
    /\ UNCHANGED otherThanConfig

NextConfig == \E view_interval \in ViewIntervals : RequestTiles(view_interval)

SpecConfig == InitConfig /\ [][NextConfig]_vars

(***************************************************************************)
(* Claims about Config::request_tiles                                      *)
(***************************************************************************)
Static == config.tile_set # <<>>

\* The bounds of the timestamps that are in both the view and the interval
\* of the source.
Larger(a, b) == IF a >= b THEN a ELSE b

Smaller(a, b) == IF a <= b THEN a ELSE b

ViewStart == Larger(request.view.start, config.interval.start)

ViewStop == Smaller(request.view.stop, config.interval.stop)

\* The score of level l (counted from 1) against the requested duration.
Score(l) ==
    LET D == config.tile_set[l][1].stop - config.tile_set[l][1].start
        R == ViewStop - ViewStart
    IN  IF D < R THEN TruncDiv(R, D) ELSE TruncDiv(D, R)

TilesOf(l) == {config.tile_set[l][n] : n \in 1..Len(config.tile_set[l])}

ReturnedTiles == {request.tiles[n] : n \in 1..Len(request.tiles)}

\* C16: for a static source, request_tiles returns tiles of the level with
\* the least score (R / D when D < R, otherwise D / R), the earliest of the
\* levels with that score; for the interval [0, 1_000_000) with four levels
\* of branch factor 10 and the view [100_000, 110_000) that is level 2, and
\* the one tile [100_000, 110_000) is returned.
C16_EarliestLeastScore ==
    (Static /\ request.status = "returned") =>
        LET c == request.chosen_level + 1
        IN  /\ c \in 1..Len(config.tile_set)
            /\ \A l \in 1..Len(config.tile_set) :
                  /\ Score(c) <= Score(l)
                  /\ l < c => Score(c) < Score(l)
            /\ ReturnedTiles \subseteq TilesOf(c)
            /\ (/\ config.interval = Interval(0, 1000000)
                /\ request.view = Interval(100000, 110000)) =>
                   /\ request.chosen_level = 2
                   /\ request.tiles = <<Interval(100000, 110000)>>

\* The view of 10_000 ns on the source of 1_000_000 ns was answered with one
\* tile of level 2.
C16_LevelTwoChosen ==
    /\ config.interval = Interval(0, 1000000)
    /\ Len(config.tile_set) = 4
    /\ Len(config.tile_set[4]) = 1000
    /\ request.view = Interval(100000, 110000)
    /\ request.status = "returned"
    /\ request.chosen_level = 2
    /\ Len(request.tiles) = 1

\* Some timestamp is in the tile and in the view.
InView(tile) ==
    \E t \in tile.start..(tile.stop - 1) : IntervalContains(request.view, t)

\* The tiles of the chosen level that have a timestamp in the view are
\* returned, no others, and every timestamp of the view that is in the
\* interval of the source is in a returned tile.
OverlappingReturned ==
    LET c == request.chosen_level + 1
    IN  /\ c \in 1..Len(config.tile_set)
        /\ ReturnedTiles = {tile \in TilesOf(c) : InView(tile)}
        /\ \A t \in ViewStart..(ViewStop - 1) :
              \E tile \in ReturnedTiles : IntervalContains(tile, t)

\* C17: for a static source whose levels partition its interval and every
\* view, request_tiles returns exactly the tiles of the chosen level that
\* overlap the view, and the returned tiles cover the part of the view that
\* is in the interval of the source.
C17_ReturnsOverlappingTiles ==
    (Static /\ request.status # "none") =>
        /\ request.status = "returned"
        /\ OverlappingReturned

\* What request_tiles does keep of C17: the list it returns, when it returns.
ReturnsOverlappingTilesIfAny ==
    (Static /\ request.status = "returned") => OverlappingReturned

\* C18: for a dynamic source and every view, request_tiles returns one
\* TileID, which holds the timestamps that are in the view and in the
\* interval of the source.
C18_DynamicReturnsIntersection ==
    (~Static /\ request.status # "none") =>
        /\ request.status = "returned"
        /\ Len(request.tiles) = 1
        /\ request.tiles[1] = Interval(ViewStart, ViewStop)
        /\ \A t \in ViewTimes :
              IntervalContains(request.tiles[1], t)
                  <=> /\ IntervalContains(request.view, t)
                      /\ IntervalContains(config.interval, t)

\* A dynamic source over [1, 5) was asked for the view [-1, 3) and returned
\* the one tile [1, 3).
C18_ViewCutToInterval ==
    /\ config.tile_set = <<>>
    /\ config.interval = Interval(1, 5)
    /\ request.view = Interval(-1, 3)
    /\ request.status = "returned"
    /\ request.tiles = <<Interval(1, 3)>>
    /\ config.request_tile_cache = <<Interval(1, 3)>>

\* C33: request_tiles memoises on last_request_interval: after
\* request_tiles(V) has returned, last_request_interval is the intersection
\* of V and the interval of the source and request_tile_cache is the
\* returned list, and a repeated request for the same interval returns an
\* equal list.
C33_MemoisedOnLastRequest ==
    [][request'.status = "returned" =>
          /\ config'.last_request_interval =
                <<IntervalIntersection(request'.view, config'.interval)>>
          /\ config'.request_tile_cache = request'.tiles
          /\ (/\ request.status = "returned"
              /\ IntervalIntersection(request'.view, config.interval)
                     = IntervalIntersection(request.view, config.interval))
                 => request'.tiles = request.tiles
      ]_vars

\* What request_tiles does keep of C33: request_tile_cache is the returned
\* list, a request for the interval of the request before returns an equal
\* list, and last_request_interval stays None.
CacheIsReturnedList ==
    [][request'.status = "returned" =>
          /\ config'.last_request_interval = <<>>
          /\ config'.request_tile_cache = request'.tiles
          /\ (/\ request.status = "returned"
              /\ IntervalIntersection(request'.view, config.interval)
                     = IntervalIntersection(request.view, config.interval))
                 => request'.tiles = request.tiles
      ]_vars

\* C35: request_tiles completes without failure for every view interval:
\* a view that does not overlap the interval of the source, a view whose
\* intersection with it has duration 0, and a tile set with a level whose
\* first tile has duration 0.
C35_RequestTilesNeverFails == request.status # "panic"

(***************************************************************************)
(* EntryID slugs                                                           *)
(***************************************************************************)
\* Largest slot index of the EntryIDs that are formatted; -1 is the summary.
MaxIndex == 11
\* Longest EntryID that is formatted.
MaxDepth == 2

\* The EntryIDs: the root, and the paths of summary and slot indices.
EntryIDs ==
    UNION {[1..n -> (-1)..MaxIndex] : n \in 0..MaxDepth}

\* str::split('_'): the pieces between the separators, one piece for a text
\* without separator, the empty text included.
RECURSIVE Split(_, _)
Split(text, separator) ==
    IF \A i \in 1..Len(text) : text[i] # separator THEN <<text>>
    ELSE LET at == CHOOSE i \in 1..Len(text) :
                       /\ text[i] = separator
                       /\ \A j \in 1..(i - 1) : text[j] # separator
         IN  <<SubSeq(text, 1, at - 1)>>
                 \o Split(SubSeq(text, at + 1, Len(text)), separator)

DigitValue(char) == CHOOSE d \in 0..9 : DigitChars[d + 1] = char

IsDigit(char) == \E d \in 0..9 : DigitChars[d + 1] = char

RECURSIVE DigitsValue(_)
DigitsValue(text) ==
    IF text = <<>> THEN 0
    ELSE 10 * DigitsValue(SubSeq(text, 1, Len(text) - 1))
             + DigitValue(text[Len(text)])

ParseIntError == [ok |-> FALSE, value |-> 0]

\* str::parse::<i64>: an optional sign and at least one digit, nothing else.
ParseI64(text) ==
    LET signed == text # <<>> /\ text[1] \in {"-", "+"}
        digits == IF signed THEN Tail(text) ELSE text
    IN  IF digits = <<>> \/ \E i \in 1..Len(digits) : ~IsDigit(digits[i])
            THEN ParseIntError
        ELSE [ok |-> TRUE,
              value |-> IF signed /\ text[1] = "-" THEN -DigitsValue(digits)
                        ELSE DigitsValue(digits)]

\* EntryID::from_slug
FromSlug(text) ==
    LET pieces == Split(text, "_")
        elts == [i \in 1..Len(pieces) |-> ParseI64(pieces[i])]
    IN  IF \E i \in 1..Len(elts) : ~elts[i].ok
            THEN [ok |-> FALSE, entry_id |-> <<>>]
        ELSE [ok |-> TRUE, entry_id |-> [i \in 1..Len(elts) |-> elts[i].value]]

\* An EntryID, not formatted yet.
InitSlug ==
    /\ DeferredIdle
    /\ MergeIdle
    /\ IntervalIdle
    /\ ArchiveIdle
    /\ ConfigIdle
    /\ ServerIdle
    /\ TimestampIdle
    /\ WindowIdle
    /\ LocksIdle
    /\ UniqueIdle
    /\ RepaintIdle
    /\ RandomIdle
    /\ HistoryIdle
    /\ lookup = <<>>
    /\ schema = <<>>
    /\ \E entry_id \in EntryIDs :
          slug = [entry_id |-> entry_id, step |-> "new", text |-> <<>>,
                  result |-> [ok |-> FALSE, entry_id |-> <<>>]]

\* format!("{}", EntryIDSlug(&entry_id))
FormatSlug ==
    /\ slug.step = "new"
    /\ slug' = [slug EXCEPT !.step = "slug",
                            !.text = EntryIDSlug(slug.entry_id)]
    /\ UNCHANGED <<lookup, schema>>
    /\ UNCHANGED otherThanData

\* EntryID::from_slug(&text)
ParseSlug ==
    /\ slug.step = "slug"
    /\ slug' = [slug EXCEPT !.step = "parsed", !.result = FromSlug(slug.text)]
    /\ UNCHANGED <<lookup, schema>>
    /\ UNCHANGED otherThanData

NextSlug ==
    \/ FormatSlug
    \/ ParseSlug

SpecSlug == InitSlug /\ [][NextSlug]_vars

\* C21: from_slug of the slug of an EntryID succeeds and returns that
\* EntryID, for the root and for paths with the summary index -1 as for
\* every other EntryID.
C21_FromSlugOfSlug ==
    slug.step = "parsed" =>
        /\ slug.result.ok
        /\ slug.result.entry_id = slug.entry_id

\* What from_slug does keep of C21: every EntryID but the root comes back,
\* and the slug of the root, the empty text, is not parsed.
FromSlugOfSlugBelowRoot ==
    slug.step = "parsed" =>
        IF slug.entry_id = <<>> THEN ~slug.result.ok
        ELSE /\ slug.result.ok
             /\ slug.result.entry_id = slug.entry_id

(***************************************************************************)
(* EntryInfo::get                                                          *)
(***************************************************************************)
\* The trees entries are looked up in: those of the archived sources, and a
\* panel without summary over a slot and a panel.
LookupTrees ==
    EntryTrees
        \cup {Panel("root", <<>>,
                    <<Slot(0, 0), Panel("node", <<>>, <<Slot(0, 1)>>)>>)}

\* EntryID::index (the level counted from 1 here)
Index(entry_id, level) ==
    IF level > Len(entry_id) THEN "None"
    ELSE IF entry_id[level] < 0 THEN "Summary" ELSE "Slot"

Found(info) == [status |-> "returned", option |-> <<info>>]

NotFound == [status |-> "returned", option |-> <<>>]

\* EntryInfo::get, the loop from its i-th turn on: the summary of a panel
\* is returned at once, a slot of a panel is descended into, any other
\* pair of index and entry panics.
RECURSIVE GetFrom(_, _, _)
GetFrom(result, entry_id, i) ==
    IF i > Len(entry_id) THEN Found(result)
    ELSE IF result.variant # "Panel"
        THEN [status |-> "panic", option |-> <<>>]
    ELSE IF Index(entry_id, i) = "Summary"
        THEN [status |-> "returned", option |-> result.summary]
    ELSE IF entry_id[i] + 1 > Len(result.slots) THEN NotFound
    ELSE GetFrom(result.slots[entry_id[i] + 1], entry_id, i + 1)

\* EntryInfo::get
EntryInfoGet(info, entry_id) == GetFrom(info, entry_id, 1)

\* A tree and an EntryID, get not called yet.
InitLookup ==
    /\ DeferredIdle
    /\ MergeIdle
    /\ IntervalIdle
    /\ ArchiveIdle
    /\ ConfigIdle
    /\ ServerIdle
    /\ TimestampIdle
    /\ WindowIdle
    /\ LocksIdle
    /\ UniqueIdle
    /\ RepaintIdle
    /\ RandomIdle
    /\ HistoryIdle
    /\ slug = <<>>
    /\ schema = <<>>
    /\ \E info \in LookupTrees, entry_id \in EntryIDs :
          lookup = [info |-> info, entry_id |-> entry_id,
                    result |-> [status |-> "none", option |-> <<>>]]

\* info.get(&entry_id)
CallGet ==
    /\ lookup.result.status = "none"
    /\ lookup' = [lookup EXCEPT !.result = EntryInfoGet(lookup.info, lookup.entry_id)]
    /\ UNCHANGED <<slug, schema>>
    /\ UNCHANGED otherThanData

NextLookup == CallGet

SpecLookup == InitLookup /\ [][NextLookup]_vars

\* C22: get returns the entry at the end of the path when every element of
\* the path resolves to an existing child (a slot index below the number of
\* slots of a Panel, -1 on a Panel with a summary), and None otherwise,
\* without failing: also for a path that goes on below a Summary or a Slot
\* and for a slot index beyond the slots.
C22_GetExactlyWhenResolves ==
    lookup.result.status # "none" =>
        /\ lookup.result.status = "returned"
        /\ lookup.result.option = EntryAt(lookup.info, lookup.entry_id)

\* What get does keep of C22: a path that resolves gets its entry, a path
\* that leaves the tree at a summary that is not there or at a slot index
\* beyond the slots gets None.
GetOfResolvingPath ==
    LET resolved == EntryAt(lookup.info, lookup.entry_id)
        upTo(n) == SubSeq(lookup.entry_id, 1, n)
        \* the path leaves the tree at an element the panel above it lacks
        leavesAtPanel ==
            \E n \in 1..Len(lookup.entry_id) :
                /\ EntryAt(lookup.info, upTo(n - 1)) # <<>>
                /\ EntryAt(lookup.info, upTo(n - 1))[1].variant = "Panel"
                /\ EntryAt(lookup.info, upTo(n)) = <<>>
    IN  lookup.result.status # "none" =>
            /\ resolved # <<>> => lookup.result = Found(resolved[1])
            /\ leavesAtPanel => lookup.result = NotFound

(***************************************************************************)
(* FieldSchema                                                             *)
(***************************************************************************)
\* insert calls made on a schema
MaxInserts == 4

FieldNames == {"a", "b", "c"}

\* BTreeMap::insert
MapInsert(map, key, value) ==
    [k \in DOMAIN map \cup {key} |-> IF k = key THEN value ELSE map[k]]

\* BTreeMap::last_key_value, the key
LastKey(map) == CHOOSE k \in DOMAIN map : \A other \in DOMAIN map : other <= k

\* FieldSchema::new
FieldSchemaNew == [field_ids |-> <<>>, field_names |-> <<>>, searchable |-> {}]

\* insert without the lookup of the name.
InsertAgain(fields, field_name, searchable) ==
    LET next_id == IF DOMAIN fields.field_names = {} THEN 0
                   ELSE LastKey(fields.field_names) + 1
    IN  [fields |->
             [field_ids |-> MapInsert(fields.field_ids, field_name, next_id),
              field_names |->
                  MapInsert(fields.field_names, next_id, field_name),
              searchable |-> IF searchable
                                 THEN fields.searchable \cup {next_id}
                                 ELSE fields.searchable],
         returned |-> next_id]

\* FieldSchema::insert: the schema after the call and the FieldID returned.
Insert(fields, field_name, searchable) ==
    IF field_name \in DOMAIN fields.field_ids
        THEN [fields |-> fields, returned |-> fields.field_ids[field_name]]
    ELSE LET next_id == IF DOMAIN fields.field_names = {} THEN 0
                        ELSE LastKey(fields.field_names) + 1
         IN  [fields |->
                  [field_ids |->
                       MapInsert(fields.field_ids, field_name, next_id),
                   field_names |->
                       MapInsert(fields.field_names, next_id, field_name),
                   searchable |-> IF searchable
                                      THEN fields.searchable \cup {next_id}
                                      ELSE fields.searchable],
              returned |-> next_id]

\* FieldSchema::new(); the names in the order of their first insert and the
\* last call are kept beside the schema.
InitSchema ==
    /\ DeferredIdle
    /\ MergeIdle
    /\ IntervalIdle
    /\ ArchiveIdle
    /\ ConfigIdle
    /\ ServerIdle
    /\ TimestampIdle
    /\ WindowIdle
    /\ LocksIdle
    /\ UniqueIdle
    /\ RepaintIdle
    /\ RandomIdle
    /\ HistoryIdle
    /\ slug = <<>>
    /\ lookup = <<>>
    /\ schema = [fields |-> FieldSchemaNew, calls |-> 0, order |-> <<>>,
                 last |-> [field_name |-> "none", searchable |-> FALSE,
                           before |-> FieldSchemaNew, returned |-> 0]]

\* schema.insert(field_name, searchable)
CallInsert(field_name, searchable) ==
    /\ schema.calls < MaxInserts
    /\ LET call == Insert(schema.fields, field_name, searchable)
       IN  schema' =
               [fields |-> call.fields,
                calls |-> schema.calls + 1,
                order |-> IF \E n \in 1..Len(schema.order) :
                                  schema.order[n] = field_name
                              THEN schema.order
                              ELSE Append(schema.order, field_name),
                last |-> [field_name |-> field_name,
                          searchable |-> searchable,
                          before |-> schema.fields,
                          returned |-> call.returned]]
    /\ UNCHANGED <<slug, lookup>>
    /\ UNCHANGED otherThanData

NextSchema ==
    \E field_name \in FieldNames, searchable \in BOOLEAN :
        CallInsert(field_name, searchable)

SpecSchema == InitSchema /\ [][NextSchema]_vars

\* C23: after any sequence of inserts the id -> name and name -> id maps are
\* inverse bijections, the FieldIDs are 0, 1, 2, ... in the order in which
\* the names were first inserted, the insert of a name that is present
\* returns the FieldID it has and leaves the schema as it was, and every
\* searchable id is an assigned id.
C23_SchemaBijective ==
    LET ids == schema.fields.field_ids
        names == schema.fields.field_names
    IN  /\ \A name \in DOMAIN ids :
              ids[name] \in DOMAIN names /\ names[ids[name]] = name
        /\ \A id \in DOMAIN names :
              names[id] \in DOMAIN ids /\ ids[names[id]] = id
        /\ DOMAIN names = 0..(Len(schema.order) - 1)
        /\ \A n \in 1..Len(schema.order) : ids[schema.order[n]] = n - 1
        /\ schema.fields.searchable \subseteq DOMAIN names
        /\ (/\ schema.calls > 0
            /\ schema.last.field_name \in DOMAIN schema.last.before.field_ids)
              => /\ schema.last.returned
                      = schema.last.before.field_ids[schema.last.field_name]
                 /\ schema.fields = schema.last.before
        /\ schema.calls > 0 =>
              schema.last.returned = ids[schema.last.field_name]

\* "b" then "a" were inserted, and "b" once more as searchable: it keeps
\* FieldID 0 and stays out of the searchable set.
C23_InsertedTwice ==
    /\ schema.order = <<"b", "a">>
    /\ schema.calls = 3
    /\ schema.last.field_name = "b"
    /\ schema.last.searchable
    /\ schema.last.returned = 0
    /\ schema.fields.field_ids["a"] = 1
    /\ schema.fields.searchable = {1}

(***************************************************************************)
(* ParallelDeferredDataSource: the tasks and the mutexes of its vectors     *)
(***************************************************************************)
\* fetch_X calls made on the source
MaxTasks == 2
\* Largest number of threads of the rayon pool
MaxThreads == 2

\* The holder of a mutex: a task (its number), the calling thread, or none.
Free == 0

CallingThread == -1

\* The closure with the mutex taken before the fetch of the data source.
TaskStepsLockFirst == <<"lock", "fetch", "push">>

\* The closure handed to rayon::spawn, e.g. lines 34-37: the fetch of the
\* wrapped data source, then lock() of the vector, then the push, after
\* which the guard is dropped.
TaskSteps == <<"fetch", "lock", "push">>

\* A task at position `at` of its closure: 0 before a thread of the pool
\* has picked it up, Len(TaskSteps) + 1 when it has returned.
TaskAt(i, step) ==
    /\ i \in 1..Len(locks.tasks)
    /\ locks.tasks[i].at \in 1..Len(TaskSteps)
    /\ TaskSteps[locks.tasks[i].at] = step

Running == {i \in 1..Len(locks.tasks) : locks.tasks[i].at \in 1..Len(TaskSteps)}

\* ParallelDeferredDataSource::new on a pool of some threads.
InitLocks ==
    /\ DeferredIdle
    /\ MergeIdle
    /\ IntervalIdle
    /\ ArchiveIdle
    /\ ConfigIdle
    /\ DataIdle
    /\ ServerIdle
    /\ TimestampIdle
    /\ WindowIdle
    /\ UniqueIdle
    /\ RepaintIdle
    /\ RandomIdle
    /\ HistoryIdle
    /\ \E threads \in 1..MaxThreads :
          locks = [threads |-> threads,
                   mutex |-> [k \in Kinds |-> Free],
                   vec |-> [k \in Kinds |-> <<>>],
                   tasks |-> <<>>,
                   caller |-> [pc |-> "idle", kind |-> "info",
                               ready |-> <<>>, got |-> <<>>]]

\* fetch_X on the calling thread: rayon::spawn of the closure, nothing else.
SpawnFetch(k) ==
    /\ locks.caller.pc = "idle"
    /\ Len(locks.tasks) < MaxTasks
    /\ locks' = [locks EXCEPT !.tasks =
                    Append(@, [kind |-> k, req |-> Len(@) + 1, at |-> 0,
                               result |-> <<>>])]
    /\ UNCHANGED otherThanLocks

\* A thread of the pool picks the task up.
TaskStart(i) ==
    /\ i \in 1..Len(locks.tasks)
    /\ locks.tasks[i].at = 0
    /\ Cardinality(Running) < locks.threads
    /\ locks' = [locks EXCEPT !.tasks[i].at = 1]
    /\ UNCHANGED otherThanLocks

\* data_source.fetch_X(..) in the task
TaskFetch(i) ==
    /\ TaskAt(i, "fetch")
    /\ locks' = [locks EXCEPT
                    !.tasks[i].at = @ + 1,
                    !.tasks[i].result =
                        <<DataSourceFetch(locks.tasks[i].kind,
                                          locks.tasks[i].req)>>]
    /\ UNCHANGED otherThanLocks

\* vec.lock() in the task: waits while the mutex is held.
TaskLock(i) ==
    /\ TaskAt(i, "lock")
    /\ locks.mutex[locks.tasks[i].kind] = Free
    /\ locks' = [locks EXCEPT !.tasks[i].at = @ + 1,
                              !.mutex[locks.tasks[i].kind] = i]
    /\ UNCHANGED otherThanLocks

\* .push(result) in the task; the guard is dropped at the end of the
\* statement.
TaskPush(i) ==
    /\ TaskAt(i, "push")
    /\ locks' = [locks EXCEPT
                    !.tasks[i].at = @ + 1,
                    !.vec[locks.tasks[i].kind] =
                        @ \o locks.tasks[i].result,
                    !.mutex[locks.tasks[i].kind] = Free]
    /\ UNCHANGED otherThanLocks

\* get_X is called; `ready` keeps what the vector holds at that moment.
CallGetX(k) ==
    /\ locks.caller.pc = "idle"
    /\ locks' = [locks EXCEPT !.caller =
                    [pc |-> "lock", kind |-> k, ready |-> locks.vec[k],
                     got |-> <<>>]]
    /\ UNCHANGED otherThanLocks

\* vec.lock() in get_X: waits while the mutex is held.
GetLock ==
    /\ locks.caller.pc = "lock"
    /\ locks.mutex[locks.caller.kind] = Free
    /\ locks' = [locks EXCEPT !.caller.pc = "swap",
                              !.mutex[locks.caller.kind] = CallingThread]
    /\ UNCHANGED otherThanLocks

\* std::mem::take of the vector in get_X; the guard is dropped and get_X
\* returns.
GetTake ==
    /\ locks.caller.pc = "swap"
    /\ locks' = [locks EXCEPT !.caller.pc = "idle",
                              !.caller.got = locks.vec[locks.caller.kind],
                              !.vec[locks.caller.kind] = <<>>,
                              !.mutex[locks.caller.kind] = Free]
    /\ UNCHANGED otherThanLocks

\* The steps that are under way: those of the tasks and of a get_X that
\* was called.
StepLocks ==
    \/ \E i \in 1..MaxTasks : TaskStart(i)
    \/ \E i \in 1..MaxTasks : TaskFetch(i)
    \/ \E i \in 1..MaxTasks : TaskLock(i)
    \/ \E i \in 1..MaxTasks : TaskPush(i)
    \/ GetLock
    \/ GetTake

NextLocks ==
    \/ \E k \in Kinds : SpawnFetch(k)
    \/ \E k \in Kinds : CallGetX(k)
    \/ \E i \in 1..MaxTasks : TaskStart(i)
    \/ \E i \in 1..MaxTasks : TaskFetch(i)
    \/ \E i \in 1..MaxTasks : TaskLock(i)
    \/ \E i \in 1..MaxTasks : TaskPush(i)
    \/ GetLock
    \/ GetTake

SpecLocks == InitLocks /\ [][NextLocks]_vars

(***************************************************************************)
(* Claims about the tasks and mutexes                                      *)
(***************************************************************************)
\* The mutexes task i holds.
HeldBy(i) == {k \in Kinds : locks.mutex[k] = i}

\* Something is under way: a task has not returned or get_X has not.
UnderWay ==
    \/ \E i \in 1..Len(locks.tasks) : locks.tasks[i].at <= Len(TaskSteps)
    \/ locks.caller.pc # "idle"

\* C24: a task holds no mutex while it waits for a thread or runs the fetch
\* of the data source, and holds the mutex of its own vector only for the
\* push; get_X holds it only for the swap; fetch_X and get_X never wait for
\* a fetch of the data source (when get_X waits for the mutex, its holder
\* has its result and only has to push it), get_X returns what the vector
\* holds when it swaps, the results that were ready when it was called
\* among them, and some step can always be taken while anything is under
\* way.
C24_CallerNeverWaitsForFetch ==
    /\ \A i \in 1..Len(locks.tasks) :
          LET task == locks.tasks[i]
          IN  /\ (task.at = 0 \/ TaskAt(i, "fetch")) => HeldBy(i) = {}
              /\ HeldBy(i) \subseteq {task.kind}
              /\ HeldBy(i) # {} => TaskAt(i, "push") /\ task.result # <<>>
    /\ \A k \in Kinds :
          locks.mutex[k] = CallingThread =>
              locks.caller.pc = "swap" /\ locks.caller.kind = k
    /\ (locks.caller.pc = "lock" /\ locks.mutex[locks.caller.kind] # Free) =>
          /\ locks.mutex[locks.caller.kind] \in 1..Len(locks.tasks)
          /\ ENABLED TaskPush(locks.mutex[locks.caller.kind])
    /\ locks.caller.pc = "idle" =>
          /\ Len(locks.caller.ready) <= Len(locks.caller.got)
          /\ SubSeq(locks.caller.got, 1, Len(locks.caller.ready))
                 = locks.caller.ready
          /\ \A n \in 1..Len(locks.caller.got) :
                \E i \in 1..Len(locks.tasks) :
                    /\ locks.tasks[i].at > Len(TaskSteps)
                    /\ locks.tasks[i].kind = locks.caller.kind
                    /\ locks.tasks[i].result = <<locks.caller.got[n]>>
          /\ Len(locks.tasks) < MaxTasks =>
                \A k \in Kinds : ENABLED SpawnFetch(k)
          /\ \A k \in Kinds : ENABLED CallGetX(k)
    /\ UnderWay => ENABLED StepLocks

\* get_X waits for the mutex of a vector a task is pushing to, while another
\* task is still in the fetch of the data source.
C24_GetWaitsForPushOnly ==
    /\ locks.caller.pc = "lock"
    /\ locks.mutex[locks.caller.kind] \in 1..Len(locks.tasks)
    /\ \E i \in 1..Len(locks.tasks) : TaskAt(i, "fetch")

(***************************************************************************)
(* Timestamp: parse and Display                                            *)
(***************************************************************************)
NS_PER_NS == 1

NS_PER_US == 1000

NS_PER_MS == 1000000

NS_PER_S == 1000000000

\* A Timestamp, an i64 of nanoseconds that is not negative, held in two
\* parts: the whole seconds and the nanoseconds below a second.
Ns(s, sub) == [s |-> s, sub |-> sub]

\* ns >= c, for a c of at most NS_PER_S
AtLeast(ns, c) == ns.s > 0 \/ ns.sub >= c

\* a <= b
NsLeq(a, b) == a.s < b.s \/ (a.s = b.s /\ a.sub <= b.sub)

\* Interval::duration_ns, for start <= stop
NsDuration(interval) ==
    IF interval.stop.sub >= interval.start.sub
        THEN Ns(interval.stop.s - interval.start.s,
                interval.stop.sub - interval.start.sub)
        ELSE Ns(interval.stop.s - interval.start.s - 1,
                interval.stop.sub + NS_PER_S - interval.start.sub)

\* ns / divisor, for a divisor that divides NS_PER_S
NsQuotient(ns, divisor) ==
    ns.s * (NS_PER_S \div divisor) + (ns.sub \div divisor)

\* ns % divisor, for a divisor that divides NS_PER_S
NsRemainder(ns, divisor) == ns.sub % divisor

TimestampUnits(divisor, digits_after_separator, unit_name) ==
    [divisor |-> divisor, digits_after_separator |-> digits_after_separator,
     unit_name |-> unit_name]

\* impl From<Timestamp> for TimestampUnits
UnitsOfTimestamp(ns) ==
    IF AtLeast(ns, NS_PER_S) THEN TimestampUnits(NS_PER_S, 3, <<"s">>)
    ELSE IF AtLeast(ns, NS_PER_MS)
        THEN TimestampUnits(NS_PER_MS, 3, <<"m", "s">>)
    ELSE IF AtLeast(ns, NS_PER_US)
        THEN TimestampUnits(NS_PER_US, 3, <<"u", "s">>)
    ELSE TimestampUnits(NS_PER_NS, 0, <<"n", "s">>)

\* From<Interval> with the digits taken from the stop value instead of the
\* duration.
UnitsOfIntervalByStop(interval) == UnitsOfTimestamp(interval.stop)

\* impl From<Interval> for TimestampUnits
UnitsOfInterval(interval) ==
    LET ns == interval.stop
        duration == NsDuration(interval)
    IN  IF AtLeast(ns, NS_PER_S)
            THEN TimestampUnits(NS_PER_S,
                     IF AtLeast(duration, NS_PER_MS) THEN 3
                     ELSE IF AtLeast(duration, NS_PER_US) THEN 6
                     ELSE 9,
                     <<"s">>)
        ELSE IF AtLeast(ns, NS_PER_MS)
            THEN TimestampUnits(NS_PER_MS,
                     IF AtLeast(duration, NS_PER_US) THEN 3 ELSE 6,
                     <<"m", "s">>)
        ELSE IF AtLeast(ns, NS_PER_US)
            THEN TimestampUnits(NS_PER_US, 3, <<"u", "s">>)
        ELSE TimestampUnits(NS_PER_NS, 0, <<"n", "s">>)

\* {n:0>3}: the decimal digits of n, filled with zeros on the left to three.
Pad3(n) ==
    LET digits == Digits(n)
    IN  IF Len(digits) >= 3 THEN digits
        ELSE [i \in 1..(3 - Len(digits)) |-> "0"] \o digits

\* impl Display for TimestampDisplay
TimestampDisplay(ns, units, include_units) ==
    LET divisor == units.divisor
        remainder == NsRemainder(ns, divisor)
        r0 == remainder \div (divisor \div 1000)
        r1 == (remainder \div (divisor \div 1000000)) % 1000
        r2 == (remainder \div (divisor \div 1000000000)) % 1000
    IN  Digits(NsQuotient(ns, divisor))
            \o (IF units.digits_after_separator > 0
                    THEN <<".">>
                        \o (IF units.digits_after_separator >= 3
                                THEN Pad3(r0) ELSE <<>>)
                        \o (IF units.digits_after_separator >= 6
                                THEN <<" ">> \o Pad3(r1) ELSE <<>>)
                        \o (IF units.digits_after_separator >= 9
                                THEN <<" ">> \o Pad3(r2) ELSE <<>>)
                    ELSE <<>>)
            \o (IF include_units THEN <<" ">> \o units.unit_name ELSE <<>>)

\* impl Display for Timestamp
DisplayTimestamp(ns) == TimestampDisplay(ns, UnitsOfTimestamp(ns), TRUE)

\* impl Display for Interval
DisplayInterval(interval) ==
    LET units == UnitsOfInterval(interval)
        duration == NsDuration(interval)
    IN  <<"f", "r", "o", "m", " ">>
            \o TimestampDisplay(interval.start, units, FALSE)
            \o <<" ", "t", "o", " ">>
            \o TimestampDisplay(interval.stop, units, TRUE)
            \o <<" ", "(", "d", "u", "r", "a", "t", "i", "o", "n", ":", " ">>
            \o TimestampDisplay(duration, UnitsOfTimestamp(duration), TRUE)
            \o <<")">>

\* str::trim, on one side and on both
RECURSIVE TrimStart(_)
TrimStart(text) ==
    IF text # <<>> /\ Head(text) = " " THEN TrimStart(Tail(text)) ELSE text

RECURSIVE TrimEnd(_)
TrimEnd(text) ==
    IF text # <<>> /\ text[Len(text)] = " "
        THEN TrimEnd(SubSeq(text, 1, Len(text) - 1))
        ELSE text

Trim(text) == TrimEnd(TrimStart(text))

\* char::to_lowercase, of the letters of the unit names
LowerChar(char) ==
    CASE char = "S" -> "s"
      [] char = "M" -> "m"
      [] char = "U" -> "u"
      [] char = "N" -> "n"
      [] OTHER -> char

ToLowercase(text) == [i \in 1..Len(text) |-> LowerChar(text[i])]

\* str::parse::<f64> of a text of digits and '.': some digits, and at most
\* one '.'. The value is kept as the digits before and after the '.'.
ParseF64(text) ==
    LET dots == {i \in 1..Len(text) : text[i] = "."}
        at == IF dots = {} THEN Len(text) + 1 ELSE CHOOSE i \in dots : TRUE
    IN  IF Cardinality(dots) > 1 \/ Len(text) - Cardinality(dots) = 0
            THEN [ok |-> FALSE, whole |-> <<>>, fraction |-> <<>>]
        ELSE [ok |-> TRUE, whole |-> SubSeq(text, 1, at - 1),
              fraction |-> SubSeq(text, at + 1, Len(text))]

\* The number of decimal places of a factor
Places(factor) ==
    CASE factor = NS_PER_NS -> 0
      [] factor = NS_PER_US -> 3
      [] factor = NS_PER_MS -> 6
      [] factor = NS_PER_S -> 9

\* (value * factor as f64) as i64: the digits of the value with the '.'
\* moved by the places of the factor, and what is left after the '.' cut
\* off. The values of ParseTexts have fractions of 0 or 5 tenths only, for
\* which the product of the f64 values is this number.
TimesFactor(value, factor) ==
    LET places == Places(factor)
        moved == [i \in 1..places |->
                     IF i <= Len(value.fraction) THEN value.fraction[i]
                     ELSE "0"]
        digits == value.whole \o moved
        split == IF Len(digits) > 9 THEN Len(digits) - 9 ELSE 0
    IN  Ns(DigitsValue(SubSeq(digits, 1, split)),
           DigitsValue(SubSeq(digits, split + 1, Len(digits))))

ParseError(error) == [ok |-> FALSE, error |-> error, timestamp |-> Ns(0, 0)]

\* parse that takes the spaces between groups of digits as part of the
\* value.
ParseGrouped(text) ==
    LET s == Trim(text)
        IsValueChar(char) == IsDigit(char) \/ char = "." \/ char = " "
        rest == {i \in 1..Len(s) : ~IsValueChar(s[i])}
        split_idx == IF rest = {} THEN Len(s) + 1
                     ELSE CHOOSE i \in rest : \A j \in rest : i <= j
        NotSpace(char) == char # " "
        value == ParseF64(SelectSeq(SubSeq(s, 1, split_idx - 1), NotSpace))
        unit == ToLowercase(Trim(SubSeq(s, split_idx, Len(s))))
    IN  IF rest = {} THEN ParseError("NoUnit")
        ELSE IF ~value.ok THEN ParseError("InvalidValue")
        ELSE IF unit = <<"n", "s">>
            THEN [ok |-> TRUE, error |-> "none",
                  timestamp |-> TimesFactor(value, NS_PER_NS)]
        ELSE IF unit = <<"u", "s">>
            THEN [ok |-> TRUE, error |-> "none",
                  timestamp |-> TimesFactor(value, NS_PER_US)]
        ELSE IF unit = <<"m", "s">>
            THEN [ok |-> TRUE, error |-> "none",
                  timestamp |-> TimesFactor(value, NS_PER_MS)]
        ELSE IF unit = <<"s">>
            THEN [ok |-> TRUE, error |-> "none",
                  timestamp |-> TimesFactor(value, NS_PER_S)]
        ELSE ParseError("InvalidUnit")

\* Timestamp::parse
Parse(text) ==
    LET s == Trim(text)
        IsValueChar(char) == IsDigit(char) \/ char = "."
        rest == {i \in 1..Len(s) : ~IsValueChar(s[i])}
        split_idx == IF rest = {} THEN Len(s) + 1
                     ELSE CHOOSE i \in rest : \A j \in rest : i <= j
        value == ParseF64(SubSeq(s, 1, split_idx - 1))
        unit == ToLowercase(Trim(SubSeq(s, split_idx, Len(s))))
    IN  IF rest = {} THEN ParseError("NoUnit")
        ELSE IF ~value.ok THEN ParseError("InvalidValue")
        ELSE IF unit = <<"n", "s">>
            THEN [ok |-> TRUE, error |-> "none",
                  timestamp |-> TimesFactor(value, NS_PER_NS)]
        ELSE IF unit = <<"u", "s">>
            THEN [ok |-> TRUE, error |-> "none",
                  timestamp |-> TimesFactor(value, NS_PER_US)]
        ELSE IF unit = <<"m", "s">>
            THEN [ok |-> TRUE, error |-> "none",
                  timestamp |-> TimesFactor(value, NS_PER_MS)]
        ELSE IF unit = <<"s">>
            THEN [ok |-> TRUE, error |-> "none",
                  timestamp |-> TimesFactor(value, NS_PER_S)]
        ELSE ParseError("InvalidUnit")

\* The values, the units and the space between them of the texts that are
\* parsed: values with and without a fraction, with two '.', without digits
\* and with groups of digits; the four units in both cases, a word that is
\* no unit, no unit and a unit followed by more.
ValueTexts ==
    {<<"1", "2", "3">>,
     <<"1", "2", "3", ".", "0", "0", "0">>,
     <<"1", "2", "3", ".", "5">>,
     <<"5", "6", "7", ".", "0">>,
     <<"0", ".", "5">>,
     <<>>,
     <<".">>,
     <<"5", "0", "0", ".", "0", ".", "0">>,
     <<"1", "2", "3", ".", "0", "0", "0", " ", "0", "0", "0", " ", "0", "0", "0">>,
     <<"1", "2", "3", ".", "4", "5", "6", " ", "7", "8", "9", " ", "0", "1", "2">>}

UnitTexts ==
    {<<"s">>,
     <<"m", "s">>,
     <<"u", "s">>,
     <<"n", "s">>,
     <<"S">>,
     <<"M", "S">>,
     <<"f", "o", "o">>,
     <<>>,
     <<"m", "s", " ", "x">>}

Gaps == {<<>>, <<" ">>}

ParseTexts ==
    {value \o gap \o unit : value \in ValueTexts, gap \in Gaps,
                            unit \in UnitTexts}
        \cup {<<" ", " ">> \o value \o <<" ", " ">> \o unit \o <<" ">> :
                 value \in {<<"1", "2", "3", ".", "5">>, <<"5", "6", "7", ".", "0">>}, unit \in UnitTexts}

GroupedStart ==
    <<"1", "2", "3", ".", "0", "0", "0", " ", "0", "0", "0", " ", "0", "0",
      "0", " ", "s">>

GroupedStop ==
    <<"1", "2", "3", ".", "4", "5", "6", " ", "7", "8", "9", " ", "0", "1",
      "2", " ", "s">>

\* The texts of the start of an interval.
StartTexts ==
    {GroupedStart, <<"1", "2", "3", ".", "0", "0", "0", " ", "s">>, <<"0", ".", "5", " ", "m", "s">>,
     <<"f", "o", "o", " ", "m", "s">>}

\* The timestamps that are displayed: below and at 1 us, 1 ms and 1 s, with
\* and without digits in every group of three.
NsValues ==
    {Ns(0, 0), Ns(0, 12), Ns(0, 123), Ns(0, 999), Ns(0, 1000),
     Ns(0, 123456), Ns(0, 999999), Ns(0, 1000000), Ns(0, 123000000),
     Ns(0, 123456000), Ns(0, 123456789), Ns(0, 999999999), Ns(1, 0),
     Ns(123, 0), Ns(123, 456000000), Ns(123, 456789000),
     Ns(123, 456789012)}

NsIntervals ==
    {interval \in [start : NsValues, stop : NsValues] :
        NsLeq(interval.start, interval.stop)}

NoTimestamps == [start |-> Ns(0, 0), stop |-> Ns(0, 0)]

\* Two texts to parse, or an interval to display.
InitTimestamp ==
    /\ DeferredIdle
    /\ MergeIdle
    /\ IntervalIdle
    /\ ArchiveIdle
    /\ ConfigIdle
    /\ DataIdle
    /\ ServerIdle
    /\ WindowIdle
    /\ LocksIdle
    /\ UniqueIdle
    /\ RepaintIdle
    /\ RandomIdle
    /\ HistoryIdle
    /\ \/ \E start_text \in StartTexts, stop_text \in ParseTexts :
             stamp = [start_text |-> start_text, stop_text |-> stop_text,
                      pc |-> "parse_start", parsed |-> <<>>,
                      interval |-> NoTimestamps, shown |-> <<>>]
       \/ \E interval \in NsIntervals :
             stamp = [start_text |-> <<>>, stop_text |-> <<>>,
                      pc |-> "new", parsed |-> <<>>,
                      interval |-> interval, shown |-> <<>>]

\* Timestamp::parse(start_text)
ParseStart ==
    /\ stamp.pc = "parse_start"
    /\ stamp' = [stamp EXCEPT !.pc = "parse_stop",
                              !.parsed = <<Parse(stamp.start_text)>>]
    /\ UNCHANGED otherThanTimestamp

\* Timestamp::parse(stop_text), and Interval::new of the two timestamps when
\* both texts were parsed and the start is not after the stop.
ParseStop ==
    /\ stamp.pc = "parse_stop"
    /\ LET start == stamp.parsed[1]
           stop == Parse(stamp.stop_text)
       IN  stamp' = IF /\ start.ok
                       /\ stop.ok
                       /\ NsLeq(start.timestamp, stop.timestamp)
                        THEN [stamp EXCEPT
                                 !.pc = "new",
                                 !.parsed = <<start, stop>>,
                                 !.interval = [start |-> start.timestamp,
                                               stop |-> stop.timestamp]]
                        ELSE [stamp EXCEPT !.pc = "rejected",
                                           !.parsed = <<start, stop>>]
    /\ UNCHANGED otherThanTimestamp

\* format!("{}", interval.stop)
ShowTimestamp ==
    /\ stamp.pc = "new"
    /\ stamp' = [stamp EXCEPT
                    !.pc = "timestamp_shown",
                    !.shown = DisplayTimestamp(stamp.interval.stop)]
    /\ UNCHANGED otherThanTimestamp

\* format!("{}", interval)
ShowInterval ==
    /\ stamp.pc = "new"
    /\ stamp' = [stamp EXCEPT !.pc = "interval_shown",
                              !.shown = DisplayInterval(stamp.interval)]
    /\ UNCHANGED otherThanTimestamp

NextTimestamp ==
    \/ ParseStart
    \/ ParseStop
    \/ ShowTimestamp
    \/ ShowInterval

SpecTimestamp == InitTimestamp /\ [][NextTimestamp]_vars

(***************************************************************************)
(* Claims about Timestamp                                                  *)
(***************************************************************************)
GroupedShown ==
    <<"f", "r", "o", "m", " ", "1", "2", "3", ".", "0", "0", "0", " ", "0",
      "0", "0", " ", "0", "0", "0", " ", "t", "o", " ", "1", "2", "3", ".",
      "4", "5", "6", " ", "7", "8", "9", " ", "0", "1", "2", " ", "s", " ",
      "(", "d", "u", "r", "a", "t", "i", "o", "n", ":", " ", "4", "5", "6",
      ".", "7", "8", "9", " ", "0", "1", "2", " ", "m", "s", ")">>

UngroupedShown ==
    <<"f", "r", "o", "m", " ", "1", "2", "3", ".", "0", "0", "0", " ", "t",
      "o", " ", "1", "2", "3", ".", "4", "5", "6", " ", "s", " ", "(", "d",
      "u", "r", "a", "t", "i", "o", "n", ":", " ", "4", "5", "6", ".", "7",
      "8", "9", " ", "m", "s", ")">>

ClaimInterval == [start |-> Ns(123, 0), stop |-> Ns(123, 456789012)]

\* C27 as stated: Timestamp::parse accepts "123.000 000 000 s" and
\* "123.456 789 012 s" as 123_000_000_000 ns and 123_456_789_012 ns, and the
\* Interval of the two is displayed as "from 123.000 000 000 to
\* 123.456 789 012 s (duration: 456.789 012 ms)".
C27_GroupedDigitsParsed ==
    (stamp # <<>> /\ stamp.start_text = GroupedStart
                  /\ stamp.stop_text = GroupedStop) =>
        /\ Len(stamp.parsed) >= 1 =>
              /\ stamp.parsed[1].ok
              /\ stamp.parsed[1].timestamp = ClaimInterval.start
        /\ Len(stamp.parsed) >= 2 =>
              /\ stamp.parsed[2].ok
              /\ stamp.parsed[2].timestamp = ClaimInterval.stop
        /\ stamp.pc # "rejected"
        /\ stamp.pc = "interval_shown" => stamp.shown = GroupedShown

\* C27, amended: Timestamp::parse rejects "123.000 000 000 s" and
\* "123.456 789 012 s" with InvalidUnit, it accepts "123.000 s" as
\* 123_000_000_000 ns, and the Interval of 123_000_000_000 ns and
\* 123_456_789_012 ns is displayed as "from 123.000 to 123.456 s (duration:
\* 456.789 ms)".
C27_GroupedDigitsRejected ==
    stamp # <<>> =>
        /\ (stamp.start_text = GroupedStart /\ Len(stamp.parsed) >= 1) =>
              stamp.parsed[1] = ParseError("InvalidUnit")
        /\ (stamp.stop_text = GroupedStop /\ Len(stamp.parsed) >= 2) =>
              stamp.parsed[2] = ParseError("InvalidUnit")
        /\ (stamp.start_text = <<"1", "2", "3", ".", "0", "0", "0", " ", "s">>
               /\ Len(stamp.parsed) >= 1) =>
              /\ stamp.parsed[1].ok
              /\ stamp.parsed[1].timestamp = ClaimInterval.start
        /\ (stamp.interval = ClaimInterval /\ stamp.pc = "interval_shown") =>
              stamp.shown = UngroupedShown

\* Both texts of C27 were parsed and rejected.
C27_BothTextsRejected ==
    /\ stamp # <<>>
    /\ stamp.start_text = GroupedStart
    /\ stamp.stop_text = GroupedStop
    /\ stamp.pc = "rejected"
    /\ stamp.parsed = <<ParseError("InvalidUnit"), ParseError("InvalidUnit")>>

\* The units by the power of ten of their nanoseconds.
UnitExponents == {0, 3, 6, 9}

PowerOfTen(e) ==
    IF e = 0 THEN NS_PER_NS
    ELSE IF e = 3 THEN NS_PER_US
    ELSE IF e = 6 THEN NS_PER_MS
    ELSE NS_PER_S

UnitOfExponent(e) ==
    IF e = 0 THEN <<"n", "s">>
    ELSE IF e = 3 THEN <<"u", "s">>
    ELSE IF e = 6 THEN <<"m", "s">>
    ELSE <<"s">>

\* The largest unit in which ns is at least one whole unit, ns below 1 us.
LargestUnit(ns) ==
    LET whole == {e \in UnitExponents :
                     e = 0 \/ ns.s > 0 \/ (e < 9 /\ ns.sub >= PowerOfTen(e))}
    IN  CHOOSE e \in whole : \A other \in whole : other <= e

\* A displayed number: the digits of the whole units and, after a '.', groups
\* of three digits that are separated by spaces.
ShownNumber(tokens) ==
    LET first == Split(tokens[1], ".")
        groups == IF Len(first) = 1 THEN <<>>
                  ELSE <<first[2]>> \o Tail(tokens)
        AllDigits(text) == text # <<>> /\ \A i \in 1..Len(text) : IsDigit(text[i])
    IN  [wellformed |-> /\ Len(first) <= 2
                        /\ Len(first) = 1 => Len(tokens) = 1
                        /\ AllDigits(first[1])
                        /\ \A i \in 1..Len(groups) :
                              AllDigits(groups[i]) /\ Len(groups[i]) = 3,
         whole |-> first[1],
         groups |-> groups]

\* The displayed number is ns in the unit of 10^e nanoseconds, cut after
\* the given number of digits.
ShowsNumber(tokens, ns, e, digits) ==
    /\ tokens # <<>>
    /\ LET number == ShownNumber(tokens)
       IN  /\ number.wellformed
           /\ 3 * Len(number.groups) = digits
           /\ LET below == SeqSum([i \in 1..Len(number.groups) |->
                             DigitsValue(number.groups[i])
                                 * PowerOfTen(e - 3 * i)])
                  whole == DigitsValue(number.whole)
                  shown == IF e = 9 THEN Ns(whole, below)
                           ELSE Ns(0, whole * PowerOfTen(e) + below)
              IN  /\ shown.s = ns.s
                  /\ shown.sub <= ns.sub
                  /\ ns.sub - shown.sub < PowerOfTen(e - digits)

\* The Timestamp rule: the largest unit with a whole unit, 3 digits after the
\* separator for s, ms and us and none for ns.
ShowsTimestamp(tokens, ns) ==
    /\ Len(tokens) = 2
    /\ tokens[2] = UnitOfExponent(LargestUnit(ns))
    /\ ShowsNumber(<<tokens[1]>>, ns, LargestUnit(ns),
                   IF LargestUnit(ns) = 0 THEN 0 ELSE 3)

\* The digits after the separator of the endpoints of an interval in the
\* unit of 10^e nanoseconds: the fewest of 3, 6 and 9 that the unit allows
\* and that reach the unit of the duration, none for ns.
DigitsForDuration(e, duration) ==
    LET allowed == {d \in {3, 6, 9} : d <= e}
        reaching == {d \in allowed : e - d <= LargestUnit(duration)}
    IN  IF allowed = {} THEN 0
        ELSE CHOOSE d \in reaching : \A other \in reaching : d <= other

\* The Interval rule: "from <start> to <stop> <unit> (duration: <duration>)"
ShowsInterval(text, interval) ==
    LET tokens == Split(text, " ")
        At(word) == {i \in 1..Len(tokens) : tokens[i] = word}
        to == CHOOSE i \in At(<<"t", "o">>) : TRUE
        open == CHOOSE i \in At(<<"(", "d", "u", "r", "a", "t", "i", "o", "n",
                                  ":">>) : TRUE
        last == tokens[Len(tokens)]
        e == LargestUnit(interval.stop)
        digits == DigitsForDuration(e, NsDuration(interval))
    IN  /\ Cardinality(At(<<"t", "o">>)) = 1
        /\ Cardinality(At(<<"(", "d", "u", "r", "a", "t", "i", "o", "n",
                            ":">>)) = 1
        /\ tokens[1] = <<"f", "r", "o", "m">>
        /\ 2 < to /\ to + 2 < open /\ open + 2 = Len(tokens)
        /\ tokens[open - 1] = UnitOfExponent(e)
        /\ ShowsNumber(SubSeq(tokens, 2, to - 1), interval.start, e, digits)
        /\ ShowsNumber(SubSeq(tokens, to + 1, open - 2), interval.stop, e,
                       digits)
        /\ last # <<>> /\ last[Len(last)] = ")"
        /\ ShowsTimestamp(<<tokens[open + 1],
                            SubSeq(last, 1, Len(last) - 1)>>,
                          NsDuration(interval))

None == <<>>

Some(value) == <<value>>

\* The Config of the window: a static source over [0, 8) with a level of
\* one tile and a level of two.
WindowConfig ==
    ConfigNew(Interval(0, 8), PartitionTileSet(Interval(0, 8), 2, 2))

\* The view intervals: two that ask for the first tile of the second level,
\* one that asks for both and one that asks for the second; the level of
\* one tile is never the nearest to them.
WindowViews ==
    {Interval(0, 3), Interval(1, 4), Interval(2, 6), Interval(5, 8)}

\* Config::request_tiles of the window for a view interval.
WindowRequestTiles(view_interval) ==
    LET request_interval == RequestInterval(WindowConfig, view_interval)
        request_duration == DurationNs(request_interval)
        keys == [l \in 1..Len(WindowConfig.tile_set) |->
                    LevelKey(WindowConfig.tile_set[l], request_duration).key]
    IN  OverlappingTiles(WindowConfig.tile_set[MinByKey(keys)],
                         request_interval)

\* BTreeMap::new, and a BTreeMap after clear
EmptyMap == [key \in {} |-> None]

\* BTreeMap::insert
MapPut(map, key, value) ==
    [k \in DOMAIN map \cup {key} |-> IF k = key THEN value ELSE map[k]]

\* map.entry(key).and_modify(|t| *t = value)
AndModify(map, key, value) ==
    IF key \in DOMAIN map THEN [map EXCEPT ![key] = value] ELSE map

\* Summary::new and Slot::new
SummaryNew(entry_id) ==
    [entry_id |-> entry_id, tiles |-> EmptyMap, last_view_interval |-> None]

SlotNew(entry_id) ==
    [entry_id |-> entry_id, expanded |-> TRUE, tile_ids |-> <<>>,
     tiles |-> EmptyMap, tile_metas |-> EmptyMap,
     last_view_interval |-> None]

\* Window::new on a source with one node, which has a summary, one kind and
\* one slot: Panel<Panel<Panel<Slot>>>.
WindowPanel ==
    [entry_id |-> <<>>, summary |-> None,
     slots |-> <<[entry_id |-> <<0>>, summary |-> Some(SummaryNew(<<0, -1>>)),
                  slots |-> <<[entry_id |-> <<0, 0>>, summary |-> None,
                               slots |-> <<SlotNew(<<0, 0, 0>>)>>]>>]>>]

\* EntryID::slot_index
SlotIndex(entry_id, level) ==
    IF level + 1 > Len(entry_id) \/ entry_id[level + 1] < 0 THEN None
    ELSE Some(entry_id[level + 1])

FoundAt(path) == [status |-> "Some", path |-> path]

FoundNone == [status |-> "None", path |-> <<>>]

FindPanics == [status |-> "panic", path |-> <<>>]

\* Panel::find_slot_mut and, below the third panel, Slot::find_slot_mut;
\* the slot found is given by the positions on the way to it.
RECURSIVE FindSlotMut(_, _, _, _)
FindSlotMut(panel, entry_id, level, path) ==
    IF level = 3
        THEN IF Len(entry_id) # level THEN FindPanics ELSE FoundAt(path)
    ELSE LET index == SlotIndex(entry_id, level)
         IN  IF index = None \/ index[1] + 1 > Len(panel.slots) THEN FoundNone
             ELSE FindSlotMut(panel.slots[index[1] + 1], entry_id, level + 1,
                              Append(path, index[1] + 1))

\* Panel::find_summary_mut, Summary::find_summary_mut and, below the third
\* panel, Slot::find_summary_mut; the summary found is that of the panel
\* given by the positions on the way to it. level() - 1 of the root id
\* overflows.
RECURSIVE FindSummaryMut(_, _, _, _)
FindSummaryMut(panel, entry_id, level, path) ==
    IF level = 3 \/ entry_id = <<>> THEN FindPanics
    ELSE IF level < Len(entry_id) - 1
        THEN LET index == SlotIndex(entry_id, level)
             IN  IF index = None \/ index[1] + 1 > Len(panel.slots)
                     THEN FoundNone
                 ELSE FindSummaryMut(panel.slots[index[1] + 1], entry_id,
                                     level + 1, Append(path, index[1] + 1))
    ELSE IF panel.summary = None THEN FoundNone
    ELSE IF Len(entry_id) # level + 1 THEN FindPanics
    ELSE IF entry_id[level + 1] >= 0 THEN FindPanics
    ELSE FoundAt(path)

\* The entry a find has found, and the panel with another entry in its
\* place.
SlotAt(panel, path) == panel.slots[path[1]].slots[path[2]].slots[path[3]]

WithSlotAt(panel, path, slot) ==
    [panel EXCEPT !.slots[path[1]].slots[path[2]].slots[path[3]] = slot]

SummaryAt(panel, path) ==
    IF path = <<>> THEN panel.summary[1]
    ELSE IF Len(path) = 1 THEN panel.slots[path[1]].summary[1]
    ELSE panel.slots[path[1]].slots[path[2]].summary[1]

WithSummaryAt(panel, path, summary) ==
    IF path = <<>> THEN [panel EXCEPT !.summary = Some(summary)]
    ELSE IF Len(path) = 1
        THEN [panel EXCEPT !.slots[path[1]].summary = Some(summary)]
    ELSE [panel EXCEPT !.slots[path[1]].slots[path[2]].summary =
              Some(summary)]

\* The tile a data source returns for a fetch.
WindowTile(kind, entry_id, tile_id) ==
    [kind |-> kind, entry_id |-> entry_id, tile_id |-> tile_id,
     data |-> [fetched |-> kind, entry_id |-> entry_id, tile_id |-> tile_id]]

\* The fetches of a kind for an entry and a sequence of tile_ids.
Fetches(kind, entry_id, tile_ids) ==
    {WindowTile(kind, entry_id, tile_ids[i]) : i \in 1..Len(tile_ids)}

\* tiles.insert(tile_id, None) for each tile_id
RECURSIVE Placeholders(_, _)
Placeholders(map, tile_ids) ==
    IF tile_ids = <<>> THEN map
    ELSE Placeholders(MapPut(map, Head(tile_ids), None), Tail(tile_ids))

\* A window that was just opened, with nothing fetched; in_flight are the
\* tiles the data source has been asked for and has not returned, arrived
\* those it returned in the update that was the last step.
InitWindow ==
    /\ DeferredIdle
    /\ MergeIdle
    /\ IntervalIdle
    /\ ArchiveIdle
    /\ ConfigIdle
    /\ DataIdle
    /\ ServerIdle
    /\ TimestampIdle
    /\ LocksIdle
    /\ UniqueIdle
    /\ RepaintIdle
    /\ RandomIdle
    /\ HistoryIdle
    /\ \E view_interval \in WindowViews :
          window = [view_interval |-> view_interval, panel |-> WindowPanel,
                    in_flight |-> {}, arrived |-> {},
                    status |-> "running"]

\* ProfApp::zoom: another view interval.
Zoom(interval) ==
    /\ window.status = "running"
    /\ window.view_interval # interval
    /\ window' = [window EXCEPT !.view_interval = interval,
                                !.arrived = {}]
    /\ UNCHANGED otherThanWindow

\* Summary::content, lines 462-470, with Summary::clear and
\* Summary::inflate: the tiles are cleared when the view interval has
\* changed, and asked for when there are none.
SummaryContent ==
    /\ window.status = "running"
    /\ LET path == <<1>>
           summary == SummaryAt(window.panel, path)
           changed == summary.last_view_interval
                          # Some(window.view_interval)
           cleared == IF changed THEN EmptyMap ELSE summary.tiles
           tile_ids == IF cleared = EmptyMap
                       THEN WindowRequestTiles(window.view_interval)
                       ELSE <<>>
       IN  window' = [window EXCEPT
               !.panel = WithSummaryAt(@, path,
                   [summary EXCEPT
                       !.tiles = Placeholders(cleared, tile_ids),
                       !.last_view_interval = Some(window.view_interval)]),
               !.in_flight = @ \cup Fetches("summary_tile", summary.entry_id,
                                            tile_ids),
               !.arrived = {}]
    /\ UNCHANGED otherThanWindow

\* Slot::content, lines 883-894, with Slot::clear and Slot::inflate.
SlotContent ==
    /\ window.status = "running"
    /\ LET path == <<1, 1, 1>>
           slot == SlotAt(window.panel, path)
           changed == slot.last_view_interval # Some(window.view_interval)
           cleared == IF changed
                      THEN [slot EXCEPT !.tile_ids = <<>>,
                                        !.tiles = EmptyMap,
                                        !.tile_metas = EmptyMap]
                      ELSE slot
           tile_ids == IF cleared.tiles = EmptyMap
                       THEN WindowRequestTiles(window.view_interval)
                       ELSE <<>>
       IN  /\ slot.expanded
           /\ window' = [window EXCEPT
                  !.panel = WithSlotAt(@, path,
                      [cleared EXCEPT
                          !.tile_ids = @ \o tile_ids,
                          !.tiles = Placeholders(@, tile_ids),
                          !.last_view_interval =
                              Some(window.view_interval)]),
                  !.in_flight = @ \cup Fetches("slot_tile", slot.entry_id,
                                               tile_ids),
                  !.arrived = {}]
    /\ UNCHANGED otherThanWindow

\* Slot::fetch_meta_tile, from render_tile for a tile of the slot: the meta
\* tile is asked for unless the slot has an entry for it.
FetchMetaTile(tile_index) ==
    /\ window.status = "running"
    /\ LET path == <<1, 1, 1>>
           slot == SlotAt(window.panel, path)
       IN  /\ tile_index \in 1..Len(slot.tile_ids)
           /\ slot.tile_ids[tile_index] \notin DOMAIN slot.tile_metas
           /\ window' = [window EXCEPT
                  !.panel = WithSlotAt(@, path,
                      [slot EXCEPT !.tile_metas =
                          MapPut(@, slot.tile_ids[tile_index], None)]),
                  !.in_flight = @ \cup
                      {WindowTile("slot_meta_tile", slot.entry_id,
                                  slot.tile_ids[tile_index])},
                  !.arrived = {}]
    /\ UNCHANGED otherThanWindow

\* The update loop with a tile put where no entry for it is.
StoreAlways(map, tile) == MapPut(map, tile.tile_id, Some(tile.data))

\* entry.tiles.entry(tile.tile_id).and_modify(|t| *t = Some(tile.data))
Store(map, tile) == AndModify(map, tile.tile_id, Some(tile.data))

\* ProfApp::update, lines 2488-2521, for one tile that the data source has
\* returned: the entry is looked for, and the tile is put in its place.
StoreTile(win, tile) ==
    LET found == IF tile.kind = "summary_tile"
                 THEN FindSummaryMut(win.panel, tile.entry_id, 0, <<>>)
                 ELSE FindSlotMut(win.panel, tile.entry_id, 0, <<>>)
    IN  IF win.status = "panic" THEN win
        ELSE IF found.status = "panic" THEN [win EXCEPT !.status = "panic"]
        ELSE IF found.status = "None" THEN win
        ELSE IF tile.kind = "summary_tile"
            THEN LET entry == SummaryAt(win.panel, found.path)
                 IN  [win EXCEPT !.panel = WithSummaryAt(@, found.path,
                         [entry EXCEPT !.tiles = Store(@, tile)])]
        ELSE IF tile.kind = "slot_tile"
            THEN LET entry == SlotAt(win.panel, found.path)
                 IN  [win EXCEPT !.panel = WithSlotAt(@, found.path,
                         [entry EXCEPT !.tiles = Store(@, tile)])]
        ELSE LET entry == SlotAt(win.panel, found.path)
             IN  [win EXCEPT !.panel = WithSlotAt(@, found.path,
                     [entry EXCEPT !.tile_metas = Store(@, tile)])]

RECURSIVE StoreTiles(_, _)
StoreTiles(win, tiles) ==
    IF tiles = {} THEN win
    ELSE LET tile == CHOOSE t \in tiles : TRUE
         IN  StoreTiles(StoreTile(win, tile), tiles \ {tile})

\* ProfApp::update, lines 2488-2521: the tiles the data source returns, of
\* those it was asked for, are put in their places.
Update(tiles) ==
    /\ window.status = "running"
    /\ tiles # {}
    /\ tiles \subseteq window.in_flight
    /\ window' = StoreTiles([window EXCEPT !.in_flight = @ \ tiles,
                                           !.arrived = tiles], tiles)
    /\ UNCHANGED otherThanWindow

NextWindow ==
    \/ \E interval \in WindowViews : Zoom(interval)
    \/ SummaryContent
    \/ SlotContent
    \/ \E tile_index \in 1..2 : FetchMetaTile(tile_index)
    \/ \E tiles \in SUBSET window.in_flight : Update(tiles)

SpecWindow == InitWindow /\ [][NextWindow]_vars

(***************************************************************************)
(* Claims about the update loop                                            *)
(***************************************************************************)
TheSummary(win) == win.panel.slots[1].summary[1]

TheSlot(win) == win.panel.slots[1].slots[1].slots[1]

\* The tile maps of the window by the kind of tile they hold, and the
\* entry_id of the entry of each.
TileMaps(win) ==
    [summary_tile |-> TheSummary(win).tiles,
     slot_tile |-> TheSlot(win).tiles,
     slot_meta_tile |-> TheSlot(win).tile_metas]

EntryOfKind(win, kind) ==
    IF kind = "summary_tile" THEN TheSummary(win).entry_id
    ELSE TheSlot(win).entry_id

\* The tiles of an entry are those its last view asked for, and a tile that
\* is stored is the tile of its kind, entry and tile_id.
TilesOfLastView(win) ==
    /\ \A entry \in {TheSummary(win), TheSlot(win)} :
          entry.last_view_interval # None =>
              DOMAIN entry.tiles =
                  LET asked ==
                          WindowRequestTiles(entry.last_view_interval[1])
                  IN  {asked[i] : i \in 1..Len(asked)}
    /\ \A kind \in TileKinds : \A tile_id \in DOMAIN TileMaps(win)[kind] :
          TileMaps(win)[kind][tile_id] \in
              {None, Some(WindowTile(kind, EntryOfKind(win, kind),
                                     tile_id).data)}

MaxTaken == 101

\* The paths given to the writer: a name, a name in a directory, and the
\* parent directory.
UniquePaths == {<<"out">>, <<"a", "/", "out">>, <<"..">>}

\* What is at a path: nothing, a directory with its earlier contents, a
\* directory made empty by this call, or something that makes create_dir
\* fail there and that remove_dir_all does not take away.
StateAt(fs, p) == IF p \in DOMAIN fs THEN fs[p] ELSE "absent"

\* Path::file_name: the last component, None when it is "..".
RECURSIVE LastComponent(_)
LastComponent(path) ==
    IF path = <<>> \/ path[Len(path)] = "/" THEN <<>>
    ELSE Append(LastComponent(SubSeq(path, 1, Len(path) - 1)), path[Len(path)])

FileName(path) ==
    IF LastComponent(path) \in {<<"..">>, <<".">>, <<>>} THEN None
    ELSE Some(LastComponent(path))

\* Path::with_file_name
WithFileName(path, f) ==
    IF PathParent(path) = <<>> THEN f ELSE PathJoin(PathParent(path), f)

\* std::fs::create_dir
create_dir(fs, p) ==
    IF StateAt(fs, p) = "absent"
    THEN [ok |-> TRUE, fs |-> (p :> "new") @@ fs]
    ELSE [ok |-> FALSE, fs |-> fs]

\* std::fs::remove_dir_all, its failure ignored
remove_dir_all(fs, p) ==
    IF StateAt(fs, p) \in {"dir", "new"} THEN (p :> "absent") @@ fs ELSE fs

\* create_unique_dir, line 30
retry_limit == 100

\* create_unique_dir, lines 31-43: path is assigned only when p was created.
PathOfNextTry(path, p) == path

\* create_unique_dir, lines 31-43: the loop, at i.
RECURSIVE RetryLoop(_, _, _)
RetryLoop(fs, path, i) ==
    IF FileName(path) = None THEN [status |-> "panic", fs |-> fs, path |-> path]
    ELSE LET f == FileName(path)[1] \o <<".">> \o Decimal(i)
             p == WithFileName(path, f)
             r == create_dir(fs, p)
         IN  IF r.ok THEN [status |-> "Ok", fs |-> r.fs, path |-> p]
             ELSE IF i >= retry_limit
                  THEN [status |-> "Err", fs |-> fs, path |-> path]
                  ELSE RetryLoop(fs, PathOfNextTry(path, p), i + 1)

\* create_unique_dir
CreateUniqueDir(fs, path, force) ==
    IF force
    THEN LET r == create_dir(remove_dir_all(fs, path), path)
         IN  [status |-> IF r.ok THEN "Ok" ELSE "Err", fs |-> r.fs, path |-> path]
    ELSE LET r == create_dir(fs, path)
         IN  IF r.ok THEN [status |-> "Ok", fs |-> r.fs, path |-> path]
             ELSE RetryLoop(fs, path, 1)

\* The name the claim calls path.i
Suffixed(path, i) == path \o <<".">> \o Decimal(i)

\* A file system before the call: something at the path or nothing, the
\* names path.1 .. path.taken not creatable, but for one of the last three
\* of them (free; 0 for none). The parent directory is there and is not
\* removed.
UniqueFileSystems(path) ==
    UNION {
      {[p \in {path} \cup {Suffixed(path, i) : i \in 1..taken} |->
           IF p = path THEN at
           ELSE IF free > 0 /\ p = Suffixed(path, free) THEN "absent"
           ELSE others] :
         at \in IF path = <<"..">> THEN {"fails"} ELSE {"absent", "dir", "fails"},
         free \in {0} \cup ((taken - 2)..taken \cap 1..taken),
         others \in {"dir", "fails"}} :
      taken \in 0..MaxTaken}

\* write is called on a writer with a path and force.
InitUnique ==
    /\ DeferredIdle
    /\ MergeIdle
    /\ IntervalIdle
    /\ ArchiveIdle
    /\ ConfigIdle
    /\ DataIdle
    /\ ServerIdle
    /\ TimestampIdle
    /\ WindowIdle
    /\ LocksIdle
    /\ RepaintIdle
    /\ RandomIdle
    /\ HistoryIdle
    /\ \E path \in UniquePaths, force \in BOOLEAN :
          \E fs \in UniqueFileSystems(path) :
              unique = [given |-> path, path |-> path, force |-> force, before |-> fs,
                        fs |-> fs, status |-> "write", made |-> {}]

\* write, line 160: create_unique_dir, and the ? on its result.
WriteCreateUniqueDir ==
    /\ unique # <<>>
    /\ unique.status = "write"
    /\ LET r == CreateUniqueDir(unique.fs, unique.path, unique.force)
       IN  unique' = [unique EXCEPT
               !.fs = r.fs,
               !.path = r.path,
               !.status = IF r.status = "Ok" THEN "created" ELSE r.status]
    /\ UNCHANGED otherThanUnique

\* write, lines 162-164: the directories of the three kinds, the first n of
\* them created; an I/O error of the next is returned.
WriteKindDirs(n) ==
    /\ unique # <<>>
    /\ unique.status = "created"
    /\ LET dirs == [i \in 1..n |-> PathJoin(unique.path,
              <<<<"summary_tile", "slot_tile", "slot_meta_tile">>[i]>>)]
       IN  unique' = [unique EXCEPT
               !.made = {dirs[i] : i \in 1..n},
               !.status = IF n = 3 THEN "fetch_info" ELSE "Err"]
    /\ UNCHANGED otherThanUnique

NextUnique ==
    \/ WriteCreateUniqueDir
    \/ \E n \in 0..3 : WriteKindDirs(n)

SpecUnique == InitUnique /\ [][NextUnique]_vars

(***************************************************************************)
(* Claims about create_unique_dir                                          *)
(***************************************************************************)
\* The names the claim has tried, in their order: path, path.1, ...
Candidate(path, i) == IF i = 0 THEN path ELSE Suffixed(path, i)

Creatable(path) ==
    {i \in 0..retry_limit :
        StateAt(unique.before, Candidate(path, i)) = "absent"}

FirstCreatable(path) ==
    Candidate(path, CHOOSE i \in Creatable(path) :
                        \A j \in Creatable(path) : i <= j)

\* What the claim says of a call that was made with the given path.
UniqueDirAsClaimed(path) ==
    /\ unique.status # "panic"
    /\ ~unique.force =>
          /\ \A p \in DOMAIN unique.before :
                unique.before[p] \in {"dir", "fails"}
                   => StateAt(unique.fs, p) = unique.before[p]
          /\ \A d \in unique.made :
                /\ PathParent(d) = unique.path
                /\ StateAt(unique.before, unique.path) = "absent"
          /\ IF Creatable(path) # {}
             THEN /\ unique.path = FirstCreatable(path)
                  /\ StateAt(unique.fs, unique.path) = "new"
                  /\ \A p \in DOMAIN unique.fs :
                        p # unique.path => unique.fs[p] = StateAt(unique.before, p)
             ELSE /\ unique.status = "Err"
                  /\ unique.fs = unique.before
                  /\ unique.made = {}
    /\ (unique.force /\ unique.before[path] = "dir") =>
          /\ unique.path = path
          /\ unique.fs[path] = "new"

UniqueCalled == unique # <<>> /\ unique.status # "write"

\* C32: create_unique_dir with force = false never removes and never writes
\* into a directory that exists: it uses the path if it can be created,
\* otherwise the first of path.1 .. path.100 that can be created, the suffix
\* appended to the original path; if none can be created it returns an I/O
\* error and write returns it without writing any file.  With force = true
\* an existing directory at the path is removed and recreated.
C32_UniqueDirCreated ==
    UniqueCalled => UniqueDirAsClaimed(unique.given)

\* The same, of every path that has a file name.
UniqueDirOfNamedPath ==
    (UniqueCalled /\ FileName(unique.given) # None)
        => UniqueDirAsClaimed(unique.given)
(***************************************************************************)
(* ProfApp::update: the pending data sources, the windows' counters and    *)
(* the repaint request                                                     *)
(***************************************************************************)
\* Most data sources the viewer is started with.
MaxSources == 2

\* Most tile fetches the windows submit in all.
MaxAppFetch == 3

\* A window's data source: the counter of its CountingDeferredDataSource,
\* the requests the wrapped source has not answered (flying) and the
\* results it holds for the next get_<kind>s (arrived).
NewWindowSource == [outstanding_requests |-> 0, flying |-> 0, arrived |-> 0]

\* ProfApp::new, lines 1887-1893: fetch_info on every data source, all of
\* them pending, no window; the first frame is drawn.
InitRepaint ==
    /\ DeferredIdle
    /\ MergeIdle
    /\ IntervalIdle
    /\ ArchiveIdle
    /\ ConfigIdle
    /\ DataIdle
    /\ ServerIdle
    /\ TimestampIdle
    /\ WindowIdle
    /\ LocksIdle
    /\ UniqueIdle
    /\ RandomIdle
    /\ HistoryIdle
    /\ \E n \in 1..MaxSources :
          app = [pending_data_sources |-> [i \in 1..n |-> "waiting"],
                 windows |-> <<>>,
                 repaint |-> TRUE,
                 updated |-> FALSE,
                 fetches |-> 0]

\* A repaint condition that looks at the pending data sources only.
RepaintWhilePending(pending_data_sources, windows) ==
    pending_data_sources # <<>>

\* update, lines 2709-2715
RepaintRequested(pending_data_sources, windows) ==
    \/ pending_data_sources # <<>>
    \/ \E w \in 1..Len(windows) : windows[w].outstanding_requests > 0

\* update, lines 2471-2486: the first pending data source becomes a window
\* when its info is there, and stays the first otherwise.
PopPending(a) ==
    IF a.pending_data_sources # <<>> /\ a.pending_data_sources[1] = "answered"
    THEN [a EXCEPT !.pending_data_sources = Tail(@),
                   !.windows = Append(@, NewWindowSource)]
    ELSE a

\* update, lines 2488-2520: get_summary_tiles, get_slot_tiles and
\* get_slot_meta_tiles of every window return what has arrived, and the
\* counter goes down by it.
DrainWindows(a) ==
    [a EXCEPT !.windows = [w \in 1..Len(@) |->
        [@[w] EXCEPT !.outstanding_requests = @ - a.windows[w].arrived,
                     !.arrived = 0]]]

\* update, the panels (Summary::inflate, Slot::inflate and
\* Slot::fetch_meta_tile): the windows submit submit[w] fetches.
FetchInWindows(a, submit) ==
    [a EXCEPT !.windows = [w \in 1..Len(@) |->
        [@[w] EXCEPT !.outstanding_requests = @ + submit[w],
                     !.flying = @ + submit[w]]],
              !.fetches = @ + SeqSum(submit)]

\* The fetches of one update, one number per window.
Submits(n) == [1..n -> 0..MaxAppFetch]

\* ProfApp::update, called for an event of the user or because a repaint
\* was requested.
AppUpdate(event, submit) ==
    /\ app # <<>>
    /\ app.repaint \/ event
    /\ LET drained == DrainWindows(PopPending(app))
       IN  /\ Len(submit) = Len(drained.windows)
           /\ drained.fetches + SeqSum(submit) <= MaxAppFetch
           /\ LET a == FetchInWindows(drained, submit)
              IN  app' = [a EXCEPT
                      !.repaint = RepaintRequested(a.pending_data_sources, a.windows),
                      !.updated = TRUE]
    /\ UNCHANGED otherThanRepaint

\* The info of a pending data source arrives.
InfoArrives(i) ==
    /\ app # <<>>
    /\ i \in 1..Len(app.pending_data_sources)
    /\ app.pending_data_sources[i] = "waiting"
    /\ app' = [app EXCEPT !.pending_data_sources[i] = "answered"]
    /\ UNCHANGED otherThanRepaint

\* The data source of a window answers one of its requests.
TileArrives(w) ==
    /\ app # <<>>
    /\ w \in 1..Len(app.windows)
    /\ app.windows[w].flying > 0
    /\ app' = [app EXCEPT !.windows[w].flying = @ - 1,
                          !.windows[w].arrived = @ + 1]
    /\ UNCHANGED otherThanRepaint

RepaintUpdate == \E submit \in UNION {Submits(n) : n \in 0..MaxSources} :
    AppUpdate(FALSE, submit)

EventUpdate == \E submit \in UNION {Submits(n) : n \in 0..MaxSources} :
    AppUpdate(TRUE, submit)

NextRepaint ==
    \/ RepaintUpdate
    \/ EventUpdate
    \/ \E i \in 1..MaxSources : InfoArrives(i)
    \/ \E w \in 1..MaxSources : TileArrives(w)

SpecRepaint == InitRepaint /\ [][NextRepaint]_vars

\* The frame that was requested is drawn, and the data sources answer.
FairRepaint ==
    /\ WF_vars(RepaintUpdate)
    /\ \A i \in 1..MaxSources : WF_vars(InfoArrives(i))
    /\ \A w \in 1..MaxSources : WF_vars(TileArrives(w))

SpecRepaintLive == SpecRepaint /\ FairRepaint

(***************************************************************************)
(* Claims about the repaint request                                        *)
(***************************************************************************)
\* Some data source is pending, or some window has requests outstanding.
AppBusy ==
    \/ app.pending_data_sources # <<>>
    \/ \E w \in 1..Len(app.windows) : app.windows[w].outstanding_requests > 0

\* Every request submitted is answered and drained.
AppQuiescent ==
    /\ app.pending_data_sources = <<>>
    /\ \A w \in 1..Len(app.windows) :
          /\ app.windows[w].outstanding_requests = 0
          /\ app.windows[w].flying = 0
          /\ app.windows[w].arrived = 0

\* C31: at the end of every update a repaint is requested whenever a data
\* source is pending or a window has requests outstanding; so the viewer
\* goes on polling until every request submitted is answered and drained,
\* and once that is so, and no fetch is submitted, every counter is 0 and no
\* repaint is requested.
C31_RepaintUntilQuiescent ==
    /\ [](app.updated => (AppBusy <=> app.repaint))
    /\ [](AppBusy => <>AppQuiescent)
    /\ [][(AppQuiescent /\ app.updated /\ app'.fetches = app.fetches)
             => (AppQuiescent' /\ ~app'.repaint)]_vars

\* All data sources are windows, all fetches were made, answered and
\* drained, and no repaint is requested.
C31_PolledToTheEnd ==
    /\ app.updated
    /\ app.pending_data_sources = <<>>
    /\ Len(app.windows) = MaxSources
    /\ app.fetches = MaxAppFetch
    /\ AppQuiescent
    /\ ~app.repaint
(***************************************************************************)
(* The view interval and its history: zoom, pan, undo and redo             *)
(***************************************************************************)
\* Most entries of the history, and how far a pan leaves the total interval.
MaxHistory == 4
MaxShift == 2

\* The interval of the data source of the window, and the intervals the
\* user zooms to with the mouse or the text boxes.
HistoryTotal == Interval(0, 20)
ZoomTargets == {Interval(0, 20), Interval(5, 15)}

\* The percents of the pan keys, keyboard lines 2067-2084.
PanPercents == {1, 5}

\* PercentageInteger::apply_to
ApplyTo(percent, value) == TruncDiv(value * percent, 100)

\* Vec::truncate
Truncate(vec, len) == IF len >= Len(vec) THEN vec ELSE SubSeq(vec, 1, len)

\* An update that lets a pan follow a pan.
UpdateViewIntervalAppending(cx, interval, origin) ==
    LET state == cx.view_interval_history
        index == state.index
        levels == Append(Truncate(state.levels, index + 1), interval)
    IN  [cx EXCEPT !.view_interval = interval,
                   !.view_interval_history =
                       [levels |-> levels,
                        origins |-> Append(Truncate(state.origins, index + 1), origin),
                        index |-> Len(levels) - 1]]

\* ProfApp::update_view_interval; entry index of the code is element
\* index + 1 of the sequences.
UpdateViewInterval(cx, interval, origin) ==
    LET state == cx.view_interval_history
        index == state.index
        keep == IF /\ state.levels # <<>>
                   /\ state.origins[index + 1] = "Pan"
                   /\ origin = "Pan"
                THEN index ELSE index + 1
        levels == Append(Truncate(state.levels, keep), interval)
    IN  [cx EXCEPT !.view_interval = interval,
                   !.view_interval_history =
                       [levels |-> levels,
                        origins |-> Append(Truncate(state.origins, keep), origin),
                        index |-> Len(levels) - 1]]

\* ProfApp::pan; dir is -1 for Left and 1 for Right.
ProfAppPan(cx, percent, dir) ==
    IF percent = 0 THEN cx
    ELSE LET duration == ApplyTo(percent,
                 cx.view_interval.stop - cx.view_interval.start)
         IN  UpdateViewInterval(cx,
                 IntervalTranslate(cx.view_interval, duration * dir), "Pan")

\* ProfApp::zoom
ProfAppZoom(cx, interval) ==
    IF cx.view_interval = interval THEN cx
    ELSE UpdateViewInterval(cx, interval, "Zoom")

\* An undo that moves the index and leaves the view interval.
UndoIndexOnly(cx) ==
    IF cx.view_interval_history.index = 0 THEN cx
    ELSE [cx EXCEPT !.view_interval_history.index = @ - 1]

\* ProfApp::undo_pan_zoom
UndoPanZoom(cx) ==
    IF cx.view_interval_history.index = 0 THEN cx
    ELSE [cx EXCEPT !.view_interval_history.index = @ - 1,
                    !.view_interval = cx.view_interval_history.levels[
                        cx.view_interval_history.index]]

\* ProfApp::redo_pan_zoom
RedoPanZoom(cx) ==
    IF cx.view_interval_history.index + 1 >= Len(cx.view_interval_history.levels)
    THEN cx
    ELSE [cx EXCEPT !.view_interval_history.index = @ + 1,
                    !.view_interval = cx.view_interval_history.levels[
                        cx.view_interval_history.index + 2]]

\* ProfApp::zoom_in
ZoomIn(cx) ==
    LET quarter == TruncDiv(-(cx.view_interval.stop - cx.view_interval.start), 4)
    IN  ProfAppZoom(cx, IntervalGrow(cx.view_interval, quarter))

\* ProfApp::zoom_out
ZoomOut(cx) ==
    LET half == TruncDiv(cx.view_interval.stop - cx.view_interval.start, 2)
    IN  ProfAppZoom(cx, IntervalIntersection(
            IntervalGrow(cx.view_interval, half), cx.total_interval))

\* Context::default: no window, an empty history.
InitHistory ==
    /\ DeferredIdle
    /\ MergeIdle
    /\ IntervalIdle
    /\ ArchiveIdle
    /\ ConfigIdle
    /\ DataIdle
    /\ ServerIdle
    /\ TimestampIdle
    /\ WindowIdle
    /\ LocksIdle
    /\ UniqueIdle
    /\ RepaintIdle
    /\ RandomIdle
    /\ history = [cx |-> [view_interval |-> Interval(0, 0),
                          total_interval |-> Interval(0, 0),
                          view_interval_history |->
                              [levels |-> <<>>, origins |-> <<>>, index |-> 0]],
                  windows |-> 0,
                  op |-> "new",
                  earlier |-> "new",
                  before |-> <<>>]

\* The history stays in the bounds.
InBounds(cx) ==
    /\ Len(cx.view_interval_history.levels) <= MaxHistory
    /\ cx.view_interval.start >= HistoryTotal.start - MaxShift
    /\ cx.view_interval.stop <= HistoryTotal.stop + MaxShift

\* The operation op takes the context to cx; before is the context it
\* started from, and earlier the operation before it.
Operation(op, cx) ==
    /\ history # <<>>
    /\ InBounds(cx)
    /\ history' = [history EXCEPT !.cx = cx, !.op = op, !.earlier = history.op,
                                  !.before = <<history.cx>>]
    /\ UNCHANGED otherThanHistory

\* update, lines 2474-2482: the first window is opened.
OpenWindow ==
    /\ history # <<>>
    /\ history.windows = 0
    /\ InBounds(ProfAppZoom([history.cx EXCEPT !.total_interval = HistoryTotal],
                            HistoryTotal))
    /\ history' = [history EXCEPT
          !.cx = ProfAppZoom([history.cx EXCEPT !.total_interval = HistoryTotal],
                             HistoryTotal),
          !.windows = 1,
          !.op = "open",
          !.earlier = history.op,
          !.before = <<history.cx>>]
    /\ UNCHANGED otherThanHistory

\* keyboard, lines 2093-2099, and the zooms of the mouse and the text boxes.
Keyboard ==
    \/ Operation("zoom_in", ZoomIn(history.cx))
    \/ Operation("zoom_out", ZoomOut(history.cx))
    \/ Operation("undo", UndoPanZoom(history.cx))
    \/ Operation("redo", RedoPanZoom(history.cx))
    \/ Operation("zoom", ProfAppZoom(history.cx, history.cx.total_interval))
    \/ \E percent \in PanPercents, dir \in {-1, 1} :
          Operation("pan", ProfAppPan(history.cx, percent, dir))

ZoomTo(interval) ==
    /\ history # <<>>
    /\ history.windows > 0
    /\ Operation("zoom", ProfAppZoom(history.cx, interval))

NextHistory ==
    \/ OpenWindow
    \/ Keyboard
    \/ \E interval \in ZoomTargets : ZoomTo(interval)

SpecHistory == InitHistory /\ [][NextHistory]_vars

(***************************************************************************)
(* Claims about the view history                                           *)
(***************************************************************************)
ViewHistory == history.cx.view_interval_history

HistoryBefore == history.before[1].view_interval_history

\* The last operation was a zoom or a pan and has changed the view interval.
ViewChangedByZoomOrPan ==
    /\ history.op \in {"open", "zoom", "zoom_in", "zoom_out", "pan"}
    /\ history.cx.view_interval # history.before[1].view_interval

\* What C39 says of the lists, the index and the operations that change
\* nothing.
HistoryIndexed ==
    /\ Len(ViewHistory.levels) = Len(ViewHistory.origins)
    /\ ViewHistory.levels # <<>> =>
          /\ ViewHistory.index < Len(ViewHistory.levels)
          /\ history.cx.view_interval = ViewHistory.levels[ViewHistory.index + 1]
    /\ ViewChangedByZoomOrPan =>
          ViewHistory.index = Len(ViewHistory.levels) - 1
    /\ ViewHistory.index = 0 => UndoPanZoom(history.cx) = history.cx
    /\ ViewHistory.index + 1 = Len(ViewHistory.levels) =>
          RedoPanZoom(history.cx) = history.cx

UndoThenRedoRestores ==
    RedoPanZoom(UndoPanZoom(history.cx)).view_interval = history.cx.view_interval

\* C39, as stated: the lists of levels and origins have equal length; when
\* the history is non-empty the index is less than the length and the view
\* interval is levels[index]; after a zoom or pan that changes the view
\* interval the index is the last position; undo at index 0 and redo at the
\* last position change nothing; and an undo followed immediately by a redo
\* restores the view interval it started from.
C39_UndoRedoRestores ==
    HistoryIndexed /\ UndoThenRedoRestores

\* C39, amended: the same, with the undo followed by a redo restoring the
\* view interval when the undo is at an index greater than 0.
C39_UndoAboveZeroRestored ==
    /\ HistoryIndexed
    /\ ViewHistory.index > 0 => UndoThenRedoRestores

\* A redo has followed an undo that moved the index, and has brought the
\* view interval back.
C39_UndoneAndRedone ==
    /\ history.op = "redo"
    /\ history.earlier = "undo"
    /\ HistoryBefore.index > 0
    /\ ViewHistory.index = HistoryBefore.index + 1
    /\ history.cx.view_interval # history.before[1].view_interval

\* A pan was made while the entry at the index had the origin Pan.
PanOnPan ==
    /\ history.op = "pan"
    /\ HistoryBefore.levels # <<>>
    /\ HistoryBefore.origins[HistoryBefore.index + 1] = "Pan"

\* C40: the view history never has two adjacent entries of origin Pan: a
\* pan made while the entry at the index has origin Pan replaces that
\* entry and appends none, also when the pan follows an undo that left
\* entries after the index.
C40_NoAdjacentPans ==
    /\ \A i \in 1..(Len(ViewHistory.origins) - 1) :
          ~(ViewHistory.origins[i] = "Pan" /\ ViewHistory.origins[i + 1] = "Pan")
    /\ PanOnPan =>
          /\ ViewHistory.index = HistoryBefore.index
          /\ Len(ViewHistory.levels) = HistoryBefore.index + 1
          /\ ViewHistory.origins[ViewHistory.index + 1] = "Pan"
          /\ ViewHistory.levels[ViewHistory.index + 1] = history.cx.view_interval
          /\ \A i \in 1..HistoryBefore.index :
                /\ ViewHistory.levels[i] = HistoryBefore.levels[i]
                /\ ViewHistory.origins[i] = HistoryBefore.origins[i]

\* A pan has replaced a Pan entry that an undo had left with entries after
\* it.
C40_PanReplacedAfterUndo ==
    /\ PanOnPan
    /\ history.earlier = "undo"
    /\ HistoryBefore.index + 1 < Len(HistoryBefore.levels)
    /\ history.cx.view_interval # history.before[1].view_interval
(***************************************************************************)
(* RandomDataSource: the slot tiles and the slot meta tiles                *)
(***************************************************************************)
\* Most rows of the slot, the items of a row (N of generate_slot, 1000 in
\* the code) and the largest stop of the interval of the source.
MaxRandomRows == 2
RandomItems == 3
MaxRandomTime == 8

\* Interval::lerp at the fraction num / den; the f32 product is taken as
\* the exact one.
IntervalLerp(iv, num, den) ==
    (2 * num * (iv.stop - iv.start) + den) \div (2 * den) + iv.start

\* generate_slot, lines 160-208: the items and the item metas of the rows,
\* with the item_uids of the generator from next on.
GenerateSlot(interval, max_rows, next) ==
    LET uid(row, i) == next + (row - 1) * RandomItems + (i - 1)
        start(i) == IntervalLerp(interval, 20 * (i - 1) + 1, 20 * RandomItems)
        stop(i) == IntervalLerp(interval, 20 * (i - 1) + 19, 20 * RandomItems)
    IN  [items |-> [row \in 1..max_rows |-> [i \in 1..RandomItems |->
             [item_uid |-> uid(row, i),
              interval |-> Interval(start(i), stop(i)),
              color |-> (((row - 1) * RandomItems + (i - 1)) % 7)]]],
         item_metas |-> [row \in 1..max_rows |-> [i \in 1..RandomItems |->
             [item_uid |-> uid(row, i),
              original_interval |-> Interval(start(i), stop(i)),
              title |-> "Test Item"]]]]

\* generate_slot: the cache is filled at the first call for the entry.
WithSlotCache(r) ==
    IF r.slot_cache # None THEN r
    ELSE [r EXCEPT !.slot_cache =
              Some(GenerateSlot(r.interval, r.max_rows, r.next)),
                   !.next = @ + r.max_rows * RandomItems]

\* fetch_slot_tile, lines 336-345: the loop over the items of a row, from
\* item i on.
RECURSIVE SlotRow(_, _, _)
SlotRow(row, tile_id, i) ==
    IF i > Len(row) THEN <<>>
    ELSE IF IntervalOverlaps(tile_id, row[i].interval)
         THEN <<[row[i] EXCEPT !.interval = IntervalIntersection(@, tile_id)]>>
                  \o SlotRow(row, tile_id, i + 1)
         ELSE SlotRow(row, tile_id, i + 1)

\* A loop over the item metas that leaves the interval of the item aside.
RECURSIVE SlotMetaRowOfAll(_, _, _, _)
SlotMetaRowOfAll(row, row_meta, tile_id, i) ==
    IF i > Len(row) \/ i > Len(row_meta) THEN <<>>
    ELSE <<row_meta[i]>> \o SlotMetaRowOfAll(row, row_meta, tile_id, i + 1)

\* fetch_slot_meta_tile, lines 364-373: the loop over the zipped items and
\* item metas of a row, from i on.
RECURSIVE SlotMetaRow(_, _, _, _)
SlotMetaRow(row, row_meta, tile_id, i) ==
    IF i > Len(row) \/ i > Len(row_meta) THEN <<>>
    ELSE IF IntervalOverlaps(tile_id, row[i].interval)
         THEN <<row_meta[i]>> \o SlotMetaRow(row, row_meta, tile_id, i + 1)
         ELSE SlotMetaRow(row, row_meta, tile_id, i + 1)

\* The tile intervals asked for.
RandomTileIDs ==
    {iv \in [start : 0..MaxRandomTime, stop : 0..MaxRandomTime] :
        iv.start < iv.stop}

\* RandomDataSource::new: an interval from 0, a slot of max_rows rows, empty
\* caches.
InitRandom ==
    /\ DeferredIdle
    /\ MergeIdle
    /\ IntervalIdle
    /\ ArchiveIdle
    /\ ConfigIdle
    /\ DataIdle
    /\ ServerIdle
    /\ TimestampIdle
    /\ WindowIdle
    /\ LocksIdle
    /\ UniqueIdle
    /\ RepaintIdle
    /\ HistoryIdle
    /\ \E stop \in {MaxRandomTime - 2, MaxRandomTime}, max_rows \in 0..MaxRandomRows :
          random = [interval |-> Interval(0, stop),
                    max_rows |-> max_rows,
                    slot_cache |-> None,
                    next |-> 0,
                    slot_tile |-> None,
                    slot_meta_tile |-> None]

\* RandomDataSource::fetch_slot_tile
FetchSlotTile(tile_id) ==
    /\ random # <<>>
    /\ LET r == WithSlotCache(random)
           items == r.slot_cache[1].items
       IN  random' = [r EXCEPT !.slot_tile = Some(
               [tile_id |-> tile_id,
                data |-> [row \in 1..Len(items) |->
                             SlotRow(items[row], tile_id, 1)]])]
    /\ UNCHANGED otherThanRandom

\* RandomDataSource::fetch_slot_meta_tile
FetchSlotMetaTile(tile_id) ==
    /\ random # <<>>
    /\ LET r == WithSlotCache(random)
           items == r.slot_cache[1].items
           item_metas == r.slot_cache[1].item_metas
           rows == IF Len(items) <= Len(item_metas)
                   THEN Len(items) ELSE Len(item_metas)
       IN  random' = [r EXCEPT !.slot_meta_tile = Some(
               [tile_id |-> tile_id,
                data |-> [row \in 1..rows |->
                   SlotMetaRow(items[row], item_metas[row], tile_id, 1)]])]
    /\ UNCHANGED otherThanRandom

NextRandom ==
    \/ \E tile_id \in RandomTileIDs : FetchSlotTile(tile_id)
    \/ \E tile_id \in RandomTileIDs : FetchSlotMetaTile(tile_id)

SpecRandom == InitRandom /\ [][NextRandom]_vars

(***************************************************************************)
(* Claims about the tiles of the random data source                        *)
(***************************************************************************)
\* The positions in a row of the items that overlap the tile.
OverlappingAt(row, tile_id) ==
    {i \in 1..Len(row) : IntervalOverlaps(tile_id, row[i].interval)}

\* The k-th of them, in the order of the row.
KthOverlapping(row, tile_id, k) ==
    CHOOSE i \in OverlappingAt(row, tile_id) :
        Cardinality({j \in OverlappingAt(row, tile_id) : j < i}) = k - 1

\* The slot tile has, row by row and in the order of the row, the items
\* that overlap its tile, each clipped to the tile.
SlotTileClipped ==
    random.slot_tile # None =>
        LET tile == random.slot_tile[1]
            items == random.slot_cache[1].items
        IN  /\ Len(tile.data) = Len(items)
            /\ \A row \in 1..Len(items) :
                  /\ Len(tile.data[row]) =
                        Cardinality(OverlappingAt(items[row], tile.tile_id))
                  /\ \A k \in 1..Len(tile.data[row]) :
                        LET item == items[row][
                                KthOverlapping(items[row], tile.tile_id, k)]
                            got == tile.data[row][k]
                        IN  /\ got.item_uid = item.item_uid
                            /\ got.color = item.color
                            /\ got.interval.start =
                                  (IF item.interval.start >= tile.tile_id.start
                                   THEN item.interval.start
                                   ELSE tile.tile_id.start)
                            /\ got.interval.stop =
                                  (IF item.interval.stop <= tile.tile_id.stop
                                   THEN item.interval.stop
                                   ELSE tile.tile_id.stop)

\* The meta tile of the same tile has the rows of the slot tile, and at
\* every place the meta of the item there, with the interval of the item
\* as it was generated.
MetaTileAligned ==
    (/\ random.slot_tile # None
     /\ random.slot_meta_tile # None
     /\ random.slot_tile[1].tile_id = random.slot_meta_tile[1].tile_id) =>
        LET tile == random.slot_tile[1]
            meta == random.slot_meta_tile[1]
            items == random.slot_cache[1].items
        IN  /\ Len(meta.data) = Len(tile.data)
            /\ \A row \in 1..Len(tile.data) :
                  /\ Len(meta.data[row]) = Len(tile.data[row])
                  /\ \A k \in 1..Len(tile.data[row]) :
                        /\ meta.data[row][k].item_uid = tile.data[row][k].item_uid
                        /\ \E i \in 1..Len(items[row]) :
                              /\ items[row][i].item_uid = meta.data[row][k].item_uid
                              /\ meta.data[row][k].original_interval =
                                    items[row][i].interval

SlotPath == <<1, 1, 1>>

\* Slot::clear
SlotClear(slot) ==
    [slot EXCEPT !.tile_ids = <<>>, !.tiles = EmptyMap, !.tile_metas = EmptyMap]

\* Slot::inflate: a fetch, a tile_id and a placeholder for every tile of
\* the view interval; fetched are the fetches submitted.
SlotInflate(slot, view_interval) ==
    LET tile_ids == WindowRequestTiles(view_interval)
    IN  [slot |-> [slot EXCEPT !.tile_ids = @ \o tile_ids,
                               !.tiles = Placeholders(@, tile_ids)],
         fetched |-> [i \in 1..Len(tile_ids) |->
             WindowTile("slot_tile", slot.entry_id, tile_ids[i])]]

\* Slot::fetch_meta_tile: the fetch is submitted and the placeholder put
\* when the slot has no entry for the tile_id.
SlotFetchMetaTile(slot, tile_id) ==
    IF tile_id \in DOMAIN slot.tile_metas
    THEN [slot |-> slot, fetched |-> <<>>]
    ELSE [slot |-> [slot EXCEPT !.tile_metas = MapPut(@, tile_id, None)],
          fetched |-> <<WindowTile("slot_meta_tile", slot.entry_id, tile_id)>>]

\* Slot::inflate_meta: fetch_meta_tile for the tile_ids, one after another.
RECURSIVE SlotInflateMeta(_, _)
SlotInflateMeta(slot, tile_ids) ==
    IF tile_ids = <<>> THEN [slot |-> slot, fetched |-> <<>>]
    ELSE LET first == SlotFetchMetaTile(slot, Head(tile_ids))
             rest == SlotInflateMeta(first.slot, Tail(tile_ids))
         IN  [slot |-> rest.slot, fetched |-> first.fetched \o rest.fetched]

\* The fetches handed to the data source: they are in flight, and they are
\* counted until the view interval changes.
Submit(win, fetches) ==
    [win EXCEPT !.in_flight = @ \cup {fetches[i] : i \in 1..Len(fetches)},
                !.submitted = @ (+) SeqToBag(fetches),
                !.arrived = {}]

\* A window that was just opened; submitted is the bag of the fetches made
\* since the view interval was set.
InitSlot ==
    /\ DeferredIdle
    /\ MergeIdle
    /\ IntervalIdle
    /\ ArchiveIdle
    /\ ConfigIdle
    /\ DataIdle
    /\ ServerIdle
    /\ TimestampIdle
    /\ LocksIdle
    /\ UniqueIdle
    /\ RepaintIdle
    /\ RandomIdle
    /\ HistoryIdle
    /\ \E view_interval \in WindowViews :
          window = [view_interval |-> view_interval, panel |-> WindowPanel,
                    in_flight |-> {}, arrived |-> {},
                    status |-> "running", submitted |-> EmptyBag]

\* ProfApp::zoom: another view interval.
SlotZoom(interval) ==
    /\ window.status = "running"
    /\ window.view_interval # interval
    /\ window' = [window EXCEPT !.view_interval = interval,
                                !.arrived = {},
                                !.submitted = EmptyBag]
    /\ UNCHANGED otherThanWindow

\* Window::search, lines 1723-1724, in the side panel of a frame, with a
\* query that was typed in an earlier frame: Slot::inflate_meta for the
\* tiles of the view interval. The selected items do the same, line 2661.
InflateMeta ==
    /\ window.status = "running"
    /\ SlotAt(window.panel, SlotPath).last_view_interval # None
    /\ LET slot == SlotAt(window.panel, SlotPath)
           done == SlotInflateMeta(slot,
                       WindowRequestTiles(window.view_interval))
       IN  window' = Submit([window EXCEPT
               !.panel = WithSlotAt(@, SlotPath, done.slot)], done.fetched)
    /\ UNCHANGED otherThanWindow

\* Slot::content, lines 883-906: clear when the view interval has changed,
\* inflate when there are no tiles, and render_tile for every tile_id, which
\* unwraps the tile of the tile_id; the item under the mouse, if any, is an
\* item of the tile at place hover that has arrived, and its meta tile is
\* asked for.
Render(hover) ==
    /\ window.status = "running"
    /\ LET slot == SlotAt(window.panel, SlotPath)
           cleared == IF slot.last_view_interval # Some(window.view_interval)
                      THEN SlotClear(slot) ELSE slot
           seen == [cleared EXCEPT
                      !.last_view_interval = Some(window.view_interval)]
           inflated == IF seen.tiles = EmptyMap
                       THEN SlotInflate(seen, window.view_interval)
                       ELSE [slot |-> seen, fetched |-> <<>>]
           tile_ids == inflated.slot.tile_ids
           unwrapped == \A i \in 1..Len(tile_ids) :
                           tile_ids[i] \in DOMAIN inflated.slot.tiles
           hovered == IF /\ unwrapped
                         /\ hover \in 1..Len(tile_ids)
                         /\ inflated.slot.tiles[tile_ids[hover]] # None
                      THEN SlotFetchMetaTile(inflated.slot, tile_ids[hover])
                      ELSE [slot |-> inflated.slot, fetched |-> <<>>]
       IN  /\ slot.expanded
           /\ hover \in 0..Len(tile_ids)
           /\ window' = Submit([window EXCEPT
                  !.panel = WithSlotAt(@, SlotPath, hovered.slot),
                  !.status = IF unwrapped THEN "running" ELSE "panic"],
                  inflated.fetched \o hovered.fetched)
    /\ UNCHANGED otherThanWindow

NextSlot ==
    \/ \E interval \in WindowViews : SlotZoom(interval)
    \/ InflateMeta
    \/ \E hover \in 0..2 : Render(hover)
    \/ \E tiles \in SUBSET window.in_flight : Update(tiles)

SpecSlot == InitSlot /\ [][NextSlot]_vars

(***************************************************************************)
(* Claims about the tiles of a slot                                        *)
(***************************************************************************)
\* The tile_ids of the slot are the keys of its tiles, and no unwrap of
\* render_tile has failed.
SlotTilesKeyed ==
    /\ window.status # "panic"
    /\ {TheSlot(window).tile_ids[i] : i \in 1..Len(TheSlot(window).tile_ids)}
          = DOMAIN TheSlot(window).tiles

\* No fetch of the kind was submitted twice since the view interval was
\* set.
FetchedOnce(kind) ==
    \A fetch \in BagToSet(window.submitted) :
        fetch.kind = kind => CopiesIn(fetch, window.submitted) <= 1

\* C38: for every Slot the list tile_ids and the keys of tiles are the same
\* TileIDs, so the unwrap of render_tile never fails; and while the view
\* interval is unchanged at most one slot tile fetch and at most one slot
\* meta tile fetch is submitted for any entry and tile_id.
C38_TilesKeyedAndFetchedOnce ==
    /\ SlotTilesKeyed
    /\ FetchedOnce("slot_tile")
    /\ FetchedOnce("slot_meta_tile")

\* The same, of the keys of the tiles and of the slot tile fetches.
SlotTilesKeyedAndFetchedOnce ==
    SlotTilesKeyed /\ FetchedOnce("slot_tile")
(***************************************************************************)
(* DataSourceHTTPServer                                                    *)
(***************************************************************************)
\* Requests the server receives
MaxRequests == 2

\* The routes of create_server; those of the tiles take a TileRequest body.
Routes == {"/info", "/tile_set", "/summary_tile", "/slot_tile",
           "/slot_meta_tile"}

TileRoutes == {"/summary_tile", "/slot_tile", "/slot_meta_tile"}

\* No response was sent.
NoResponse == 0

\* The holder of the data_source mutex: a request (its number) or none.
Unlocked == 0

\* DataSourceHTTPServer::new and create_server: the mutex is free and not
\* poisoned, no request has come in.
InitServer ==
    /\ DeferredIdle
    /\ MergeIdle
    /\ IntervalIdle
    /\ ArchiveIdle
    /\ ConfigIdle
    /\ DataIdle
    /\ TimestampIdle
    /\ WindowIdle
    /\ LocksIdle
    /\ UniqueIdle
    /\ RepaintIdle
    /\ RandomIdle
    /\ HistoryIdle
    /\ server = [holder |-> Unlocked, poisoned |-> FALSE, handlers |-> <<>>]

\* A request comes in on a route: its body does or does not deserialize to
\* a TileRequest, and the fetch of the data source would return or panic
\* (as FileDataSource::read_file does for a tile that has no file).
Receive(route, body_ok, fetch_ok) ==
    /\ Len(server.handlers) < MaxRequests
    /\ route \notin TileRoutes => body_ok
    /\ server' = [server EXCEPT !.handlers =
                     Append(@, [route |-> route, body_ok |-> body_ok,
                                fetch_ok |-> fetch_ok, pc |-> "extract",
                                status |-> NoResponse])]
    /\ UNCHANGED otherThanServer

\* The extractors of the handler (web::Json<TileRequest>, web::Data): a
\* body that does not deserialize is answered by the extractor with 400 Bad
\* Request, and the handler is not called.
Extract(i) ==
    /\ i \in 1..Len(server.handlers)
    /\ server.handlers[i].pc = "extract"
    /\ server' = IF server.handlers[i].body_ok
                     THEN [server EXCEPT !.handlers[i].pc = "lock"]
                     ELSE [server EXCEPT !.handlers[i].pc = "done",
                                         !.handlers[i].status = 400]
    /\ UNCHANGED otherThanServer

\* state.data_source.lock().unwrap(): waits while the mutex is held; on a
\* poisoned mutex lock() is an Err and unwrap panics, which ends the handler
\* without a response.
LockDataSource(i) ==
    /\ i \in 1..Len(server.handlers)
    /\ server.handlers[i].pc = "lock"
    /\ server.holder = Unlocked
    /\ server' = IF server.poisoned
                     THEN [server EXCEPT !.handlers[i].pc = "aborted"]
                     ELSE [server EXCEPT !.handlers[i].pc = "fetch",
                                         !.holder = i]
    /\ UNCHANGED otherThanServer

\* data_source.fetch_X(..) and Ok(web::Json(result)): the guard is dropped
\* when the handler returns; a fetch that panics unwinds through the guard,
\* which poisons the mutex, and the handler ends without a response.
FetchAndRespond(i) ==
    /\ i \in 1..Len(server.handlers)
    /\ server.handlers[i].pc = "fetch"
    /\ server' = IF server.handlers[i].fetch_ok
                     THEN [server EXCEPT !.handlers[i].pc = "done",
                                         !.handlers[i].status = 200,
                                         !.holder = Unlocked]
                     ELSE [server EXCEPT !.handlers[i].pc = "aborted",
                                         !.holder = Unlocked,
                                         !.poisoned = TRUE]
    /\ UNCHANGED otherThanServer

NextServer ==
    \/ \E route \in Routes, body_ok \in BOOLEAN, fetch_ok \in BOOLEAN :
          Receive(route, body_ok, fetch_ok)
    \/ \E i \in 1..MaxRequests : Extract(i)
    \/ \E i \in 1..MaxRequests : LockDataSource(i)
    \/ \E i \in 1..MaxRequests : FetchAndRespond(i)

SpecServer == InitServer /\ [][NextServer]_vars

(***************************************************************************)
(* Claims about the HTTP server                                            *)
(***************************************************************************)
Ended(i) == server.handlers[i].pc \in {"done", "aborted"}

\* C25: a tile request whose slugs (here: whose body) cannot be parsed is
\* answered with 400, a request whose fetch fails is answered with 500, and
\* in neither case does the handler end without a response.
C25_ErrorsAnswered ==
    \A i \in 1..Len(server.handlers) :
        LET handler == server.handlers[i]
        IN  Ended(i) =>
                /\ handler.pc = "done"
                /\ ~handler.body_ok => handler.status = 400
                /\ (handler.body_ok /\ ~handler.fetch_ok) =>
                       handler.status = 500

\* What the server does keep of C25: a body that does not deserialize is
\* answered with 400, and a handler that returns answers with 200.
BadBodyAnswered ==
    \A i \in 1..Len(server.handlers) :
        LET handler == server.handlers[i]
        IN  /\ (Ended(i) /\ ~handler.body_ok) =>
                  handler.pc = "done" /\ handler.status = 400
            /\ handler.pc = "done" => handler.status \in {200, 400}
            /\ handler.pc = "aborted" => handler.status = NoResponse

\* C26: the fetches of two requests never overlap, and a request whose
\* handler fails leaves the server able to answer every later request: a
\* request whose body is well-formed and whose own fetch returns is
\* answered.
C26_LaterRequestsAnswered ==
    /\ Cardinality({i \in 1..Len(server.handlers) :
                       server.handlers[i].pc = "fetch"}) <= 1
    /\ \A i \in 1..Len(server.handlers) :
          LET handler == server.handlers[i]
          IN  (Ended(i) /\ handler.body_ok /\ handler.fetch_ok) =>
                  handler.pc = "done" /\ handler.status = 200

\* What the server does keep of C26: one fetch at a time, by the handler
\* that holds the mutex, and every request is answered as long as no fetch
\* has panicked.
OneFetchAtATime ==
    /\ \A i \in 1..Len(server.handlers) :
          server.handlers[i].pc = "fetch" <=> server.holder = i
    /\ ~server.poisoned =>
          \A i \in 1..Len(server.handlers) :
              server.handlers[i].pc # "aborted"

====
